---- MODULE Spec2Model ----
(***************************************************************************)
(* Electricity meter time-bucketing pipeline (pandas_electricity.py, with  *)
(* the polars and DuckDB variants of the same steps): local UK clock       *)
(* readings are converted to UTC, sorted, differenced, expanded onto a     *)
(* one-minute grid with a Peak / Off-Peak rate, and aggregated into        *)
(* 15-minute buckets.                                                      *)
(*                                                                         *)
(* A datetime is an integer: seconds since 2000-01-01T00:00:00.  A float   *)
(* is an exact rational [n, d]; the rounding of IEEE doubles is not        *)
(* modelled.                                                               *)
(***************************************************************************)
EXTENDS Integers, Sequences, FiniteSets, TLC

VARIABLES
    pc,         \* position in the script: the numbered step that runs next
    df,         \* the readings table (raw rows, then with UTC / delta columns)
    minute_df,  \* the one-minute rows (all_minutes / minute_df)
    result,     \* the 15-minute bucket table
    calYear,    \* calendar check: the year handed to the BST calculators
    calOut,     \* calendar check: the boundaries they returned
    csv,        \* comparison of the scripts: the rows of the input file
    out,        \* comparison of the scripts: what each of them produced
    combined,   \* sensor merge: the merged frame (combined), None before the
                \* first non-empty file
    conflict_count, \* sensor merge: conflict columns created so far
    todo,       \* sensor merge: the files of the sensor still to process, in
                \* the order of the loop
    drive,      \* weight sync: the Drive folder (its .txt files and the cache)
    synced      \* weight sync: what the last sync_drive_data call did

vars == <<pc, df, minute_df, result, calYear, calOut, csv, out, combined, conflict_count, todo,
          drive, synced>>

(***************************************************************************)
(* Bounds of the model.                                                    *)
(***************************************************************************)
MaxReadings == 3     \* rows in the input CSV
MaxOff == 3          \* a reading lies 0..MaxOff grid steps after its anchor
YearSpan == 60       \* calendar years 2000 .. 2000 + YearSpan

Years == 2000 .. (2000 + YearSpan)

(***************************************************************************)
(* Calendar arithmetic of datetime / DATE (proleptic Gregorian).           *)
(***************************************************************************)
is_leap(y) == (y % 4 = 0) /\ ((y % 100 # 0) \/ (y % 400 = 0))

days_before_year(y) ==
    LET p == y - 1 IN p * 365 + (p \div 4) - (p \div 100) + (p \div 400)

days_in_month(y, m) ==
    IF m = 2 THEN (IF is_leap(y) THEN 29 ELSE 28)
    ELSE IF m \in {4, 6, 9, 11} THEN 30 ELSE 31

RECURSIVE days_before_month(_, _)
days_before_month(y, m) ==
    IF m = 1 THEN 0 ELSE days_before_month(y, m - 1) + days_in_month(y, m - 1)

\* date.toordinal(): 0001-01-01 is day 1
ymd2ord(y, m, d) == days_before_year(y) + days_before_month(y, m) + d

\* the day the model counts seconds from
EpochOrd == ymd2ord(2000, 1, 1)

\* datetime(y, m, d, hh, mm, ss) as seconds since 2000-01-01T00:00:00
datetime(y, m, d, hh, mm, ss) ==
    (ymd2ord(y, m, d) - EpochOrd) * 86400 + hh * 3600 + mm * 60 + ss

\* the day ordinal of a datetime, and its time of day in seconds (dt.time())
toordinal(dt) == (dt \div 86400) + EpochOrd
time_of(dt) == dt % 86400

\* datetime.weekday(): Monday = 0 .. Sunday = 6
weekday(ord) == (ord + 6) % 7

\* DuckDB DAYOFWEEK: Sunday = 0 .. Saturday = 6
DAYOFWEEK(ord) == ord % 7

\* dt.year / YEAR(LocalDateTime): a year has at most 366 days, so the year
\* is the quotient below or the one after it (for the years of the model)
year_of(dt) ==
    LET guess == 2000 + (dt \div (366 * 86400))
    IN  IF dt >= datetime(guess + 1, 1, 1, 0, 0, 0) THEN guess + 1 ELSE guess

(***************************************************************************)
(* The calendar as the statements below read it, independent of the        *)
(* weekday arithmetic of the scripts: 2024-03-31 was a Sunday.             *)
(***************************************************************************)
IsSunday(ord) == (ord - ymd2ord(2024, 3, 31)) % 7 = 0

\* the Sunday among the last seven days of a 31-day month
LastSundayOf(y, m) ==
    CHOOSE ord \in ymd2ord(y, m, 25) .. ymd2ord(y, m, 31) : IsSunday(ord)

YearStart == [y \in (2000 - 1) .. (2000 + YearSpan + 1) |-> datetime(y, 1, 1, 0, 0, 0)]

\* the calendar year a timestamp lies in
YearContaining(t) ==
    CHOOSE y \in (2000 - 1) .. (2000 + YearSpan) : YearStart[y] <= t /\ t < YearStart[y + 1]

\* local clock window of BST: from 01:00 on the last Sunday of March
\* (inclusive) to 02:00 on the last Sunday of October (exclusive)
BstWindowLocal ==
    [y \in (2000 - 1) .. (2000 + YearSpan) |->
        [start |-> (LastSundayOf(y, 3) - EpochOrd) * 86400 + 3600,
         end |-> (LastSundayOf(y, 10) - EpochOrd) * 86400 + 2 * 3600]]

\* the UK wall clock at a UTC instant: BST runs from 01:00 UTC on the last
\* Sunday of March to 01:00 UTC on the last Sunday of October
UkClockAt(utc) ==
    LET w == BstWindowLocal[YearContaining(utc)]
    IN  IF w.start <= utc /\ utc < w.end - 3600 THEN utc + 3600 ELSE utc

\* the tariff rule on a time of day in seconds: after 06:30, up to 23:30
InPeakWindow(tod) == tod > 6 * 3600 + 30 * 60 /\ tod <= 23 * 3600 + 30 * 60

(***************************************************************************)
(* BST boundaries.                                                         *)
(***************************************************************************)
\* mutant: the weekday is taken as if Sunday were 0
last_sunday_monday0(year, month) ==
    LET next_month == IF month = 12 THEN ymd2ord(year + 1, 1, 1)
                      ELSE ymd2ord(year, month + 1, 1)
        last_day == next_month - 1
        days_to_sunday == weekday(last_day) % 7
    IN  last_day - days_to_sunday

\* last_sunday(year, month), as the day ordinal of the returned datetime
last_sunday(year, month) ==
    LET next_month == IF month = 12 THEN ymd2ord(year + 1, 1, 1)
                      ELSE ymd2ord(year, month + 1, 1)
        last_day == next_month - 1
        days_to_sunday == (weekday(last_day) + 1) % 7
    IN  last_day - days_to_sunday

\* .replace(hour=h, minute=0, second=0) of a midnight datetime given by ordinal
at_hour(ord, h) == (ord - EpochOrd) * 86400 + h * 3600

bst_start(year) == at_hour(last_sunday(year, 3), 1)
bst_end(year) == at_hour(last_sunday(year, 10), 2)

\* the bst_boundaries CTE of the DuckDB scripts
duck_last_sunday(yr, next_month_no) ==
    LET last_day == ymd2ord(yr, next_month_no, 1) - 1
    IN  last_day - (DAYOFWEEK(last_day) % 7)

duck_bst_start(yr) == at_hour(duck_last_sunday(yr, 4), 1)
duck_bst_end(yr) == at_hour(duck_last_sunday(yr, 11), 2)

\* bst_start and bst_end of every year of the model, computed once
bst_window == [y \in (2000 - 1) .. (2000 + YearSpan) |-> <<bst_start(y), bst_end(y)>>]

\* mutant: the end of the window is taken inclusive
is_bst_end_inclusive(dt) ==
    LET year == year_of(dt)
    IN  bst_window[year][1] <= dt /\ dt <= bst_window[year][2]

is_bst(dt) ==
    LET year == year_of(dt)
    IN  bst_window[year][1] <= dt /\ dt < bst_window[year][2]

\* mutant: the hour is added in the BST window
convert_to_utc_plus_hour(dt) == IF is_bst(dt) THEN dt + 3600 ELSE dt

convert_to_utc(dt) == IF is_bst(dt) THEN dt - 3600 ELSE dt

\* the bst_boundaries rows of every year of the model, computed once
bst_boundaries ==
    [yr \in (2000 - 1) .. (2000 + YearSpan) |-> <<duck_bst_start(yr), duck_bst_end(yr)>>]

\* the with_utc CTE of the DuckDB scripts
with_utc(LocalDateTime) ==
    LET b == bst_boundaries[year_of(LocalDateTime)]
    IN  IF LocalDateTime >= b[1] /\ LocalDateTime < b[2]
        THEN LocalDateTime - 3600
        ELSE LocalDateTime

(***************************************************************************)
(* Floats as exact rationals [n, d] with d > 0, in lowest terms.  A        *)
(* nullable cell is a sequence: << >> is None / NaN / NaT, <<v>> is v.     *)
(***************************************************************************)
RECURSIVE gcd(_, _)
gcd(a, b) == IF b = 0 THEN a ELSE gcd(b, a % b)

abs(x) == IF x < 0 THEN -x ELSE x

rat(n, d) == LET g == gcd(abs(n), d) IN [n |-> n \div g, d |-> d \div g]

rat_add(a, b) == rat(a.n * b.d + b.n * a.d, a.d * b.d)

None == << >>
notna(cell) == cell # << >>

\* mutant: integer (floor) division
floor_div(delta, mins) == rat(delta \div mins, 1)

\* delta / mins: Python true division of a number by a positive count
true_div(delta, mins) == rat(delta, mins)

(***************************************************************************)
(* [4/8] expand_interval: the one-minute grid of one interval.             *)
(***************************************************************************)
peak_start == 6 * 3600 + 30 * 60
peak_end == 23 * 3600 + 30 * 60

\* mutant: the tariff window is read on the UK wall clock of the minute
is_peak_local_clock(dt) ==
    time_of(UkClockAt(dt)) > peak_start /\ time_of(UkClockAt(dt)) <= peak_end

\* mutant: 06:30 itself is taken as Peak
is_peak_start_inclusive(dt) == time_of(dt) >= peak_start /\ time_of(dt) <= peak_end

\* t > peak_start and t <= peak_end, on the time of day of the grid timestamp
is_peak(dt) == time_of(dt) > peak_start /\ time_of(dt) <= peak_end

\* mutant: the loop stops before the end instant (while t < end)
loop_minutes_end_exclusive(first, end) ==
    [k \in 1 .. (IF first < end THEN (end - 1 - first) \div 60 + 1 ELSE 0) |->
        first + (k - 1) * 60]

\* mutant: the loop stops after a quarter of an hour
loop_minutes_quarter_hour(first, end) ==
    [k \in 1 .. (IF first <= end
                  THEN (IF (end - first) \div 60 + 1 > 15 THEN 15 ELSE (end - first) \div 60 + 1)
                  ELSE 0) |->
        first + (k - 1) * 60]

\* the timestamps a loop "t = first; while t <= end: ...; t += 1 minute"
\* visits, in order
loop_minutes(first, end) ==
    [k \in 1 .. (IF first <= end THEN (end - first) \div 60 + 1 ELSE 0) |->
        first + (k - 1) * 60]

\* mutant: the first pass stops one minute early (temp < end)
count_mins_exclusive(temp, end) ==
    LET visited == loop_minutes(temp, end - 1)
    IN  [p_mins |-> Cardinality({k \in DOMAIN visited : is_peak(visited[k])}),
         op_mins |-> Cardinality({k \in DOMAIN visited : ~is_peak(visited[k])})]

\* first pass: while temp <= end, count the P and the OP minutes
count_mins(temp, end) ==
    LET visited == loop_minutes(temp, end)
    IN  [p_mins |-> Cardinality({k \in DOMAIN visited : is_peak(visited[k])}),
         op_mins |-> Cardinality({k \in DOMAIN visited : ~is_peak(visited[k])})]

\* mutant: the second pass starts at the interval start itself
gen_rows_from_start(current, end, p_rate, op_rate, idx) ==
    LET visited == loop_minutes(current - 60, end)
    IN  [k \in DOMAIN visited |->
            [MinuteGrid |-> visited[k],
             P_Value |-> IF is_peak(visited[k]) THEN <<p_rate>> ELSE None,
             OP_Value |-> IF ~is_peak(visited[k]) THEN <<op_rate>> ELSE None,
             Interval |-> idx]]

\* second pass: while current <= end, append one row per minute
\* mutant: the Off-Peak rate is written on every minute
gen_rows_op_everywhere(current, end, p_rate, op_rate, idx) ==
    LET visited == loop_minutes(current, end)
    IN  [k \in DOMAIN visited |->
            [MinuteGrid |-> visited[k],
             P_Value |-> IF is_peak(visited[k]) THEN <<p_rate>> ELSE None,
             OP_Value |-> <<op_rate>>,
             Interval |-> idx]]

gen_rows(current, end, p_rate, op_rate, idx) ==
    LET visited == loop_minutes(current, end)
    IN  [k \in DOMAIN visited |->
            [MinuteGrid |-> visited[k],
             P_Value |-> IF is_peak(visited[k]) THEN <<p_rate>> ELSE None,
             OP_Value |-> IF ~is_peak(visited[k]) THEN <<op_rate>> ELSE None,
             Interval |-> idx]]

\* Interval is bookkeeping of the model: the index of the row that produced
\* the minute (the DuckDB scripts carry the interval's UTC_DateTime instead).
expand_interval(row, idx) ==
    LET start == row.UTC_DateTime
        end == row.Next_DateTime
    IN  IF ~notna(end) THEN << >>
        ELSE LET current == start + 60
                 c == count_mins(current, end[1])
                 p_rate == IF c.p_mins > 0 THEN true_div(row.Delta_P[1], c.p_mins)
                           ELSE rat(0, 1)
                 op_rate == IF c.op_mins > 0 THEN true_div(row.Delta_OP[1], c.op_mins)
                            ELSE rat(0, 1)
             IN  gen_rows(current, end[1], p_rate, op_rate, idx)

RECURSIVE expand_all(_, _)
expand_all(rows, i) ==
    IF i > Len(rows) THEN << >>
    ELSE expand_interval(rows[i], i) \o expand_all(rows, i + 1)

(***************************************************************************)
(* [6/8] calculate_bucket and the bucket keys of the other scripts.        *)
(***************************************************************************)
\* mutant: the one-minute shift is left out
calculate_bucket_no_shift(dt) ==
    LET adjusted == dt
        minute == (adjusted % 3600) \div 60
        bucket_minute == (minute \div 15) * 15
    IN  (adjusted - (adjusted % 3600)) + bucket_minute * 60

\* mutant: the minute is added instead of subtracted
calculate_bucket_plus_minute(dt) ==
    LET adjusted == dt + 60
        minute == (adjusted % 3600) \div 60
        bucket_minute == (minute \div 15) * 15
    IN  (adjusted - (adjusted % 3600)) + bucket_minute * 60

\* mutant: two minutes are subtracted
calculate_bucket_two_minutes(dt) ==
    LET adjusted == dt - 120
        minute == (adjusted % 3600) \div 60
        bucket_minute == (minute \div 15) * 15
    IN  (adjusted - (adjusted % 3600)) + bucket_minute * 60

\* mutant: the minute is rounded down to a multiple of 30
calculate_bucket_half_hour(dt) ==
    LET adjusted == dt - 60
        minute == (adjusted % 3600) \div 60
        bucket_minute == (minute \div 30) * 30
    IN  (adjusted - (adjusted % 3600)) + bucket_minute * 60

calculate_bucket(dt) ==
    LET adjusted == dt - 60
        minute == (adjusted % 3600) \div 60
        bucket_minute == (minute \div 15) * 15
    IN  (adjusted - (adjusted % 3600)) + bucket_minute * 60

\* polars: (MinuteGrid - 1 minute).dt.truncate("15m"), windows counted from
\* the Unix epoch
polars_bucket(dt) ==
    LET adjusted == dt - 60
        epoch == datetime(1970, 1, 1, 0, 0, 0)
    IN  adjusted - ((adjusted - epoch) % (15 * 60))

\* DuckDB: TIME_BUCKET(INTERVAL '15 minutes', DATE_TRUNC('minute', MinuteGrid)
\* - INTERVAL '1 minute'), buckets counted from the origin 2000-01-03
time_bucket(dt) ==
    LET MinuteGridClean == dt - (dt % 60)
        adjusted == MinuteGridClean - 60
        origin == datetime(2000, 1, 3, 0, 0, 0)
    IN  adjusted - ((adjusted - origin) % (15 * 60))

\* DuckDB: DATE_TRUNC('hour', MinuteGrid - 1 minute)
\*         + 1 minute * (EXTRACT(MINUTE ...)::INT / 15 * 15)
date_trunc_bucket(dt) ==
    LET adjusted == dt - 60
        minute == (adjusted % 3600) \div 60
    IN  (adjusted - (adjusted % 3600)) + 60 * ((minute \div 15) * 15)

add_bucket(row) ==
    [MinuteGrid |-> row.MinuteGrid, P_Value |-> row.P_Value,
     OP_Value |-> row.OP_Value, Interval |-> row.Interval,
     Bucket |-> calculate_bucket(row.MinuteGrid)]

(***************************************************************************)
(* [7/8] groupby('Bucket').agg(...) and the sort by Bucket.                *)
(***************************************************************************)
\* 'sum' of a float column: None / NaN cells are skipped, an empty sum is 0.0
RECURSIVE agg_sum(_, _, _)
agg_sum(rows, col, i) ==
    IF i > Len(rows) THEN rat(0, 1)
    ELSE IF notna(rows[i][col]) THEN rat_add(rows[i][col][1], agg_sum(rows, col, i + 1))
    ELSE agg_sum(rows, col, i + 1)

set_min(S) == CHOOSE x \in S : \A y \in S : x <= y
set_max(S) == CHOOSE x \in S : \A y \in S : x >= y

\* mutant: the keys come out in descending order
RECURSIVE sorted_seq_descending(_)
sorted_seq_descending(S) ==
    IF S = {} THEN << >>
    ELSE LET m == set_max(S) IN <<m>> \o sorted_seq_descending(S \ {m})

RECURSIVE sorted_seq(_)
sorted_seq(S) ==
    IF S = {} THEN << >>
    ELSE LET m == set_min(S) IN <<m>> \o sorted_seq(S \ {m})

\* mutant: Minutes counts the P_Value column, whose nulls are not counted
agg_group_count_p_value(rows, b) ==
    LET grp == SelectSeq(rows, LAMBDA r : r.Bucket = b)
        grid == {grp[i].MinuteGrid : i \in 1 .. Len(grp)}
    IN  [Bucket |-> b,
         MinDateTime |-> set_min(grid),
         MaxDateTime |-> set_max(grid),
         Minutes |-> Len(SelectSeq(grp, LAMBDA r : notna(r.P_Value))),
         P_Usage |-> agg_sum(grp, "P_Value", 1),
         OP_Usage |-> agg_sum(grp, "OP_Value", 1)]

agg_group(rows, b) ==
    LET grp == SelectSeq(rows, LAMBDA r : r.Bucket = b)
        grid == {grp[i].MinuteGrid : i \in 1 .. Len(grp)}
    IN  [Bucket |-> b,
         MinDateTime |-> set_min(grid),
         MaxDateTime |-> set_max(grid),
         Minutes |-> Len(grp),
         P_Usage |-> agg_sum(grp, "P_Value", 1),
         OP_Usage |-> agg_sum(grp, "OP_Value", 1)]

groupby_agg(rows) ==
    LET keys == sorted_seq({rows[i].Bucket : i \in 1 .. Len(rows)})
    IN  [k \in 1 .. Len(keys) |-> agg_group(rows, keys[k])]


(***************************************************************************)
(* The input CSV.  The rows of one run lie on a grid after one anchor: the *)
(* anchors are the instants the tariff, bucket, year and BST rules turn    *)
(* on; a row's P and OP are cumulative counters in any row order.          *)
(***************************************************************************)
Anchors ==
    { [base |-> datetime(2024, 1, 1, 0, 0, 0), step |-> 60],
      [base |-> datetime(2024, 1, 1, 6, 29, 0), step |-> 60],
      [base |-> datetime(2024, 1, 1, 23, 29, 0), step |-> 60],
      [base |-> datetime(2024, 1, 1, 12, 14, 30), step |-> 30],
      [base |-> datetime(2024, 7, 1, 7, 29, 0), step |-> 60],
      [base |-> datetime(2024, 3, 31, 0, 59, 0), step |-> 60],
      [base |-> datetime(2024, 10, 27, 1, 58, 0), step |-> 60] }

\* the cumulative counters (P, OP) a row may carry
Meter == { <<100, 50>>, <<104, 53>> }

RawRows(a) ==
    { [LocalDateTime |-> a.base + k * a.step, P |-> m[1], OP |-> m[2]] :
        k \in 0 .. MaxOff, m \in Meter }

Inputs ==
    UNION { UNION { [1 .. n -> RawRows(a)] : n \in 0 .. MaxReadings } : a \in Anchors }

(***************************************************************************)
(* The script, one action per numbered step.                               *)
(***************************************************************************)
\* [1/8] the table as read_csv and Date + Time leave it
Init ==
    /\ pc = "convert"
    /\ df \in Inputs
    /\ minute_df = << >>
    /\ result = << >>
    /\ calYear = 2000
    /\ calOut = [py |-> None, duck |-> None]
    /\ csv = << >>
    /\ out = [pandas |-> None, polars |-> None, duckdb |-> None]
    /\ drive = None
    /\ synced = None
    /\ combined = None
    /\ conflict_count = 0
    /\ todo = << >>

\* mutant: the rows keep the order of the file (no sort)
ConvertToUtc_file_order ==
    /\ pc = "convert"
    /\ df' = [i \in 1 .. Len(df) |->
                [LocalDateTime |-> df[i].LocalDateTime,
                 UTC_DateTime |-> convert_to_utc(df[i].LocalDateTime),
                 P |-> df[i].P,
                 OP |-> df[i].OP]]
    /\ pc' = "deltas"
    /\ UNCHANGED <<minute_df, result, calYear, calOut, csv, out, combined, conflict_count, todo, drive, synced>>

\* [2/8] UTC_DateTime = LocalDateTime.apply(convert_to_utc), then
\* sort_values('UTC_DateTime'): the default sort is not stable, rows with
\* equal keys may come out in any order
ConvertToUtc ==
    /\ pc = "convert"
    /\ LET utc == [i \in 1 .. Len(df) |-> convert_to_utc(df[i].LocalDateTime)]
       IN  \E perm \in Permutations(1 .. Len(df)) :
              /\ \A i \in 1 .. Len(df) - 1 : utc[perm[i]] <= utc[perm[i + 1]]
              /\ df' = [i \in 1 .. Len(df) |->
                          [LocalDateTime |-> df[perm[i]].LocalDateTime,
                           UTC_DateTime |-> utc[perm[i]],
                           P |-> df[perm[i]].P,
                           OP |-> df[perm[i]].OP]]
    /\ pc' = "deltas"
    /\ UNCHANGED <<minute_df, result, calYear, calOut, csv, out, combined, conflict_count, todo, drive, synced>>

\* mutant: the shifted columns are filled for the last row (a zero delta up
\* to its own timestamp), so no row is dropped
with_deltas_filled(rows) ==
    [i \in 1 .. Len(rows) |->
        [UTC_DateTime |-> rows[i].UTC_DateTime,
         LocalDateTime |-> rows[i].LocalDateTime,
         P |-> rows[i].P,
         OP |-> rows[i].OP,
         Delta_P |-> IF i < Len(rows) THEN <<rows[i + 1].P - rows[i].P>> ELSE <<0>>,
         Delta_OP |-> IF i < Len(rows) THEN <<rows[i + 1].OP - rows[i].OP>> ELSE <<0>>,
         Next_DateTime |-> IF i < Len(rows) THEN <<rows[i + 1].UTC_DateTime>>
                           ELSE <<rows[i].UTC_DateTime>>]]

\* [3/8] shift(-1) deltas, then drop the row whose Next_DateTime is NaT
with_deltas(rows) ==
    [i \in 1 .. Len(rows) |->
        [UTC_DateTime |-> rows[i].UTC_DateTime,
         LocalDateTime |-> rows[i].LocalDateTime,
         P |-> rows[i].P,
         OP |-> rows[i].OP,
         Delta_P |-> IF i < Len(rows) THEN <<rows[i + 1].P - rows[i].P>> ELSE None,
         Delta_OP |-> IF i < Len(rows) THEN <<rows[i + 1].OP - rows[i].OP>> ELSE None,
         Next_DateTime |-> IF i < Len(rows) THEN <<rows[i + 1].UTC_DateTime>> ELSE None]]

CalculateDeltas ==
    /\ pc = "deltas"
    /\ df' = SelectSeq(with_deltas(df), LAMBDA r : notna(r.Next_DateTime))
    /\ pc' = "expand"
    /\ UNCHANGED <<minute_df, result, calYear, calOut, csv, out, combined, conflict_count, todo, drive, synced>>

\* [4/8], [5/8] all_minutes.extend(expand_interval(row)) for every row,
\* then minute_df = pd.DataFrame(all_minutes)
ExpandGrid ==
    /\ pc = "expand"
    /\ minute_df' = expand_all(df, 1)
    /\ pc' = "bucket"
    /\ UNCHANGED <<df, result, calYear, calOut, csv, out, combined, conflict_count, todo, drive, synced>>

\* [6/8] minute_df['Bucket'] = minute_df['MinuteGrid'].apply(calculate_bucket);
\* a frame built from an empty list has no MinuteGrid column: KeyError
CreateBuckets ==
    /\ pc = "bucket"
    /\ IF minute_df = << >>
       THEN /\ pc' = "KeyError"
            /\ UNCHANGED minute_df
       ELSE /\ minute_df' = [i \in 1 .. Len(minute_df) |-> add_bucket(minute_df[i])]
            /\ pc' = "aggregate"
    /\ UNCHANGED <<df, result, calYear, calOut, csv, out, combined, conflict_count, todo, drive, synced>>

\* [7/8] groupby('Bucket').agg(...), sort_values('Bucket')
Aggregate ==
    /\ pc = "aggregate"
    /\ result' = groupby_agg(minute_df)
    /\ pc' = "done"
    /\ UNCHANGED <<df, minute_df, calYear, calOut, csv, out, combined, conflict_count, todo, drive, synced>>

Next ==
    \/ ConvertToUtc
    \/ CalculateDeltas
    \/ ExpandGrid
    \/ CreateBuckets
    \/ Aggregate

Spec == Init /\ [][Next]_vars

(***************************************************************************)
(* The same script with the rows of the input file kept beside the table,  *)
(* in the order of the file, on the anchors at which the UTC order and the *)
(* file order can part: a winter midnight and the start of BST.            *)
(***************************************************************************)
InputAnchors ==
    { [base |-> datetime(2024, 1, 1, 0, 0, 0), step |-> 60],
      [base |-> datetime(2024, 3, 31, 0, 59, 0), step |-> 60] }

InitInput ==
    /\ pc = "convert"
    /\ df \in UNION { UNION { [1 .. n -> RawRows(a)] : n \in 0 .. MaxReadings } : a \in InputAnchors }
    /\ csv = df
    /\ minute_df = << >>
    /\ result = << >>
    /\ calYear = 2000
    /\ calOut = [py |-> None, duck |-> None]
    /\ out = [pandas |-> None, polars |-> None, duckdb |-> None]
    /\ drive = None
    /\ synced = None
    /\ combined = None
    /\ conflict_count = 0
    /\ todo = << >>

SpecInput == InitInput /\ [][Next]_vars


(***************************************************************************)
(* The three scripts run on one input file.  A row of the file carries its *)
(* Date and Time as text: "ok" (LocalDateTime is what the text parses to), *)
(* "empty" (a missing cell) or "garbage" (text that is no date or time).   *)
(* A script ends with its bucket table as written to its output file (a    *)
(* usage cell is << >> for an empty field) or with the error it raised.    *)
(***************************************************************************)
CsvRows(a) ==
    { [Text |-> "ok", LocalDateTime |-> r.LocalDateTime, P |-> r.P, OP |-> r.OP] :
        r \in RawRows(a) }
    \cup { [Text |-> t, LocalDateTime |-> 0, P |-> 100, OP |-> 50] : t \in {"empty", "garbage"} }

\* the comparison runs on the anchors at midnight, at 06:29, on the 30-second
\* grid and on the day BST starts
ScriptAnchors ==
    { a \in Anchors :
        a.base \in { datetime(2024, 1, 1, 0, 0, 0), datetime(2024, 1, 1, 6, 29, 0),
                     datetime(2024, 1, 1, 12, 14, 30), datetime(2024, 3, 31, 0, 59, 0) } }

CsvInputs ==
    UNION { UNION { [1 .. n -> CsvRows(a)] : n \in 0 .. MaxReadings } : a \in ScriptAnchors }

\* how a script ends: its output file is written, or an exception is raised
Written(table) == [error |-> "", table |-> table]
Raised(exception) == [error |-> exception, table |-> << >>]

\* a frame row after the UTC conversion: UTC_DateTime is a nullable cell
utc_row(r, utc) ==
    [UTC_DateTime |-> IF r.Text = "ok" THEN <<utc>> ELSE None,
     LocalDateTime |-> r.LocalDateTime, P |-> r.P, OP |-> r.OP]

\* the orders a sort by UTC_DateTime may leave the rows in: ascending keys,
\* the null keys last (pandas) or first (polars), equal keys in any order
key_le(a, b, nulls_last) ==
    IF notna(a) /\ notna(b) THEN a[1] <= b[1]
    ELSE IF nulls_last THEN ~notna(b) ELSE ~notna(a)

sort_orders(rows, nulls_last) ==
    { perm \in Permutations(1 .. Len(rows)) :
        \A i \in 1 .. Len(rows) - 1 :
            key_le(rows[perm[i]].UTC_DateTime, rows[perm[i + 1]].UTC_DateTime, nulls_last) }

\* shift(-1) / LEAD: the next row's values, null in the last row
shift_deltas(rows) ==
    [i \in 1 .. Len(rows) |->
        [UTC_DateTime |-> rows[i].UTC_DateTime,
         LocalDateTime |-> rows[i].LocalDateTime,
         P |-> rows[i].P,
         OP |-> rows[i].OP,
         Delta_P |-> IF i < Len(rows) THEN <<rows[i + 1].P - rows[i].P>> ELSE None,
         Delta_OP |-> IF i < Len(rows) THEN <<rows[i + 1].OP - rows[i].OP>> ELSE None,
         Next_DateTime |-> IF i < Len(rows) THEN rows[i + 1].UTC_DateTime ELSE None]]

\* a frame row with a start, as expand_interval reads it
interval_row(r) ==
    [UTC_DateTime |-> r.UTC_DateTime[1], LocalDateTime |-> r.LocalDateTime,
     P |-> r.P, OP |-> r.OP, Delta_P |-> r.Delta_P, Delta_OP |-> r.Delta_OP,
     Next_DateTime |-> r.Next_DateTime]

\* to_csv / write_csv: a null usage becomes an empty field
to_csv(table) ==
    [j \in 1 .. Len(table) |->
        [Bucket |-> table[j].Bucket,
         MinDateTime |-> table[j].MinDateTime,
         MaxDateTime |-> table[j].MaxDateTime,
         Minutes |-> table[j].Minutes,
         P_Usage |-> <<table[j].P_Usage>>,
         OP_Usage |-> <<table[j].OP_Usage>>]]

(***************************************************************************)
(* pandas_electricity.py from the first line to the last.                  *)
(***************************************************************************)
\* expand_interval on a row of the frame: NaT + 1 minute is NaT and
\* NaT <= end is False, so a row without a start yields no minute
pandas_expand(rows) ==
    LET RECURSIVE go(_)
        go(i) ==
            IF i > Len(rows) THEN << >>
            ELSE (IF notna(rows[i].UTC_DateTime)
                  THEN expand_interval(interval_row(rows[i]), i)
                  ELSE << >>) \o go(i + 1)
    IN  go(1)

\* the script on the file rows, its sort leaving the rows in order perm
pandas_script(rows, perm) ==
    IF \E i \in 1 .. Len(rows) : rows[i].Text = "garbage"
    THEN Raised("ValueError")
    ELSE LET frame == [i \in 1 .. Len(rows) |-> utc_row(rows[perm[i]], convert_to_utc(rows[perm[i]].LocalDateTime))]
             deltas == SelectSeq(shift_deltas(frame), LAMBDA r : notna(r.Next_DateTime))
             all_minutes == pandas_expand(deltas)
         IN  IF all_minutes = << >> THEN Raised("KeyError")
             ELSE Written(to_csv(groupby_agg([k \in 1 .. Len(all_minutes) |->
                                                 add_bucket(all_minutes[k])])))

(***************************************************************************)
(* polars_electricity.py from the first line to the last.                  *)
(***************************************************************************)
\* expand_minutes: [] for a row without end or start, else the two passes
\* of expand_interval (NaN in place of None, replaced by null afterwards)
expand_minutes(row, idx) ==
    IF ~notna(row.Next_DateTime) \/ ~notna(row.UTC_DateTime) THEN << >>
    ELSE expand_interval(interval_row(row), idx)

polars_expand(rows) ==
    LET RECURSIVE go(_)
        go(i) == IF i > Len(rows) THEN << >> ELSE expand_minutes(rows[i], i) \o go(i + 1)
    IN  go(1)

polars_add_bucket(row) ==
    [MinuteGrid |-> row.MinuteGrid, P_Value |-> row.P_Value,
     OP_Value |-> row.OP_Value, Interval |-> row.Interval,
     Bucket |-> polars_bucket(row.MinuteGrid)]

\* group_by("Bucket").agg([...]).sort("Bucket"): sum skips the nulls and is
\* 0.0 for a group without a value, as in pandas
group_by_agg(rows) == groupby_agg(rows)

\* the frame is built from three empty lists when there is no minute: its
\* columns have no type, and is_nan / dt.truncate on them either raise or
\* pass, depending on the polars release (empty_ok)
polars_script(rows, perm, empty_ok) ==
    LET frame == [i \in 1 .. Len(rows) |-> utc_row(rows[perm[i]], convert_to_utc(rows[perm[i]].LocalDateTime))]
        deltas == SelectSeq(shift_deltas(frame), LAMBDA r : notna(r.Next_DateTime))
        minutes == polars_expand(deltas)
    IN  IF minutes = << >>
        THEN (IF empty_ok THEN Written(<< >>) ELSE Raised("InvalidOperationError"))
        ELSE Written(to_csv(group_by_agg([k \in 1 .. Len(minutes) |->
                                             polars_add_bucket(minutes[k])])))

(***************************************************************************)
(* duckdb_electricity_1-minute.py: the query and the export.               *)
(***************************************************************************)
\* raw JOIN bst_boundaries ON YEAR(LocalDateTime) = yr: a row whose
\* LocalDateTime is NULL joins no year and is gone
duck_with_utc(rows) ==
    LET joined == SelectSeq(rows, LAMBDA r : r.Text = "ok")
    IN  [i \in 1 .. Len(joined) |-> utc_row(joined[i], with_utc(joined[i].LocalDateTime))]

\* minute_grid: UNNEST(generate_series(UTC_DateTime + 1 minute, Next_DateTime,
\* 1 minute)), one row per element
minute_grid(d, idx) ==
    LET series == loop_minutes(d.UTC_DateTime[1] + 60, d.Next_DateTime[1])
    IN  [k \in DOMAIN series |->
            [UTC_DateTime |-> d.UTC_DateTime[1], Delta_P |-> d.Delta_P[1],
             Delta_OP |-> d.Delta_OP[1], MinuteGrid |-> series[k], Interval |-> idx]]

\* with_category
Category(MinuteGrid) ==
    IF time_of(MinuteGrid) > 6 * 3600 + 30 * 60 /\ time_of(MinuteGrid) <= 23 * 3600 + 30 * 60
    THEN "P" ELSE "OP"

\* interval_counts: GROUP BY UTC_DateTime, Delta_P, Delta_OP over the
\* categorised minutes
interval_counts(grid) ==
    LET key(c) == <<c.UTC_DateTime, c.Delta_P, c.Delta_OP>>
        members(g) == {k \in 1 .. Len(grid) : key(grid[k]) = g}
    IN  { [UTC_DateTime |-> g[1],
           Total_P_Mins |->
               Cardinality({k \in members(g) : Category(grid[k].MinuteGrid) = "P"}),
           Total_OP_Mins |->
               Cardinality({k \in members(g) : Category(grid[k].MinuteGrid) = "OP"})] :
            g \in {key(grid[k]) : k \in 1 .. Len(grid)} }

\* with_rates and bucketed, for one joined pair (c, i)
with_rates(c, i) ==
    [MinuteGrid |-> c.MinuteGrid,
     P_Value |-> IF Category(c.MinuteGrid) = "P" /\ i.Total_P_Mins > 0
                 THEN <<true_div(c.Delta_P, i.Total_P_Mins)>> ELSE None,
     OP_Value |-> IF Category(c.MinuteGrid) = "OP" /\ i.Total_OP_Mins > 0
                  THEN <<true_div(c.Delta_OP, i.Total_OP_Mins)>> ELSE None,
     Interval |-> c.Interval,
     Bucket |-> date_trunc_bucket(c.MinuteGrid)]

\* the rows a set holds, in some order (the aggregates do not depend on it)
RECURSIVE set_to_seq(_)
set_to_seq(S) ==
    IF S = {} THEN << >>
    ELSE LET x == CHOOSE x \in S : TRUE IN <<x>> \o set_to_seq(S \ {x})

\* with_category c JOIN interval_counts i ON c.UTC_DateTime = i.UTC_DateTime,
\* then with_rates and bucketed: one row for each joined pair
duck_join(grid, counts) ==
    LET RECURSIVE go(_)
        go(k) ==
            IF k > Len(grid) THEN << >>
            ELSE LET joined == SelectSeq(counts,
                                         LAMBDA i : i.UTC_DateTime = grid[k].UTC_DateTime)
                 IN  [j \in 1 .. Len(joined) |-> with_rates(grid[k], joined[j])] \o go(k + 1)
    IN  go(1)

duck_bucketed(grid) == duck_join(grid, set_to_seq(interval_counts(grid)))

\* SUM(col): NULL when the group has no non-NULL value
duck_sum(grp, col) ==
    IF \A k \in 1 .. Len(grp) : ~notna(grp[k][col]) THEN None
    ELSE <<agg_sum(grp, col, 1)>>

\* SELECT Bucket, MIN, MAX, COUNT(*), SUM, SUM ... GROUP BY Bucket ORDER BY
\* Bucket, and the export of the table
duck_final(rows) ==
    LET keys == sorted_seq({rows[k].Bucket : k \in 1 .. Len(rows)})
        grp(b) == SelectSeq(rows, LAMBDA r : r.Bucket = b)
        grid(b) == {grp(b)[k].MinuteGrid : k \in 1 .. Len(grp(b))}
    IN  [j \in 1 .. Len(keys) |->
            [Bucket |-> keys[j],
             MinDateTime |-> set_min(grid(keys[j])),
             MaxDateTime |-> set_max(grid(keys[j])),
             Minutes |-> Len(grp(keys[j])),
             P_Usage |-> duck_sum(grp(keys[j]), "P_Value"),
             OP_Usage |-> duck_sum(grp(keys[j]), "OP_Value")]]

duck_grid(deltas) ==
    LET RECURSIVE go(_)
        go(i) == IF i > Len(deltas) THEN << >> ELSE minute_grid(deltas[i], i) \o go(i + 1)
    IN  go(1)

\* the script on the file rows, LEAD ... OVER (ORDER BY UTC_DateTime) reading
\* the joined rows in order perm.  read_csv_auto gives a column without a
\* single value the type VARCHAR, and Date + Time then binds or not
\* depending on the DuckDB release (untyped_ok); text that is no date or
\* time makes the read or the cast fail.
duckdb_script(rows, perm, untyped_ok) ==
    IF \E i \in 1 .. Len(rows) : rows[i].Text = "garbage" THEN Raised("ConversionException")
    ELSE IF \A i \in 1 .. Len(rows) : rows[i].Text # "ok"
    THEN (IF untyped_ok THEN Written(<< >>) ELSE Raised("BinderException"))
    ELSE LET joined == duck_with_utc(rows)
             ordered == [i \in 1 .. Len(joined) |-> joined[perm[i]]]
             filtered_deltas == SelectSeq(shift_deltas(ordered),
                                          LAMBDA r : notna(r.Next_DateTime))
         IN  Written(duck_final(duck_bucketed(duck_grid(filtered_deltas))))

(***************************************************************************)
(* The three scripts, one after the other, on the same input file.         *)
(***************************************************************************)
InitScripts ==
    /\ pc = "pandas"
    /\ csv \in CsvInputs
    /\ df = << >>
    /\ minute_df = << >>
    /\ result = << >>
    /\ calYear = 2000
    /\ calOut = [py |-> None, duck |-> None]
    /\ out = [pandas |-> None, polars |-> None, duckdb |-> None]
    /\ drive = None
    /\ synced = None
    /\ combined = None
    /\ conflict_count = 0
    /\ todo = << >>

\* python pandas_electricity.py; sort_values puts NaT last
RunPandas ==
    /\ pc = "pandas"
    /\ \E perm \in sort_orders([i \in 1 .. Len(csv) |-> utc_row(csv[i], convert_to_utc(csv[i].LocalDateTime))], TRUE) :
          out' = [out EXCEPT !.pandas = <<pandas_script(csv, perm)>>]
    /\ pc' = "polars"
    /\ UNCHANGED <<df, minute_df, result, calYear, calOut, csv, combined, conflict_count, todo, drive, synced>>

\* python polars_electricity.py; sort puts the nulls first
RunPolars ==
    /\ pc = "polars"
    /\ \E perm \in sort_orders([i \in 1 .. Len(csv) |-> utc_row(csv[i], convert_to_utc(csv[i].LocalDateTime))], FALSE) :
          \E empty_ok \in BOOLEAN :
              out' = [out EXCEPT !.polars = <<polars_script(csv, perm, empty_ok)>>]
    /\ pc' = "duckdb"
    /\ UNCHANGED <<df, minute_df, result, calYear, calOut, csv, combined, conflict_count, todo, drive, synced>>

\* python duckdb_electricity_1-minute.py
RunDuckDB ==
    /\ pc = "duckdb"
    /\ \E perm \in sort_orders(duck_with_utc(csv), TRUE) :
          \E untyped_ok \in BOOLEAN :
              out' = [out EXCEPT !.duckdb = <<duckdb_script(csv, perm, untyped_ok)>>]
    /\ pc' = "compared"
    /\ UNCHANGED <<df, minute_df, result, calYear, calOut, csv, combined, conflict_count, todo, drive, synced>>

NextScripts == RunPandas \/ RunPolars \/ RunDuckDB

SpecScripts == InitScripts /\ [][NextScripts]_vars

(***************************************************************************)
(* 20251223-csv-to-separate-sensors.py: merge_sensor_files on the files of *)
(* one sensor.  A frame is [index, cols]: the Timestamp index and, for     *)
(* each column, its cell at every timestamp of the index.  A column is     *)
(* named <<prefix, name>>: << << >>, name>> is a column of the files, and  *)
(* <<prefix, name>> the conflict column whose name is the prefix           *)
(* !<letters>! followed by name; a prefix is the sequence of its letters.  *)
(***************************************************************************)
MaxFiles == 2        \* files of the sensor
MaxPrefixes == 704   \* prefixes taken from one generator (the 703rd is !AAA!)

\* string.ascii_uppercase
letters ==
    << "A", "B", "C", "D", "E", "F", "G", "H", "I", "J", "K", "L", "M",
       "N", "O", "P", "Q", "R", "S", "T", "U", "V", "W", "X", "Y", "Z" >>

\* _letter_combos(letters, length): the combinations in the order yielded
RECURSIVE letter_combos(_)
letter_combos(length) ==
    IF length = 1 THEN [i \in 1 .. Len(letters) |-> <<letters[i]>>]
    ELSE LET rest == letter_combos(length - 1)
         IN  [i \in 1 .. Len(letters) * Len(rest) |->
                 <<letters[(i - 1) \div Len(rest) + 1]>> \o rest[((i - 1) % Len(rest)) + 1]]

\* mutant: every length starts again from the combinations of one letter
generate_conflict_prefixes_one_letter(n) ==
    letter_combos(1)[((n - 1) % Len(letters)) + 1]

\* the n-th prefix next(conflict_gen) returns: the generator yields the
\* combinations of length 1, then those of length 2, and so on
generate_conflict_prefixes(n) ==
    LET RECURSIVE yielded(_, _)
        yielded(length, k) ==
            LET combos == letter_combos(length)
            IN  IF k <= Len(combos) THEN combos[k]
                ELSE yielded(length + 1, k - Len(combos))
    IN  yielded(1, n)

\* the timestamps and the values the files of the model carry: 200000 and
\* 200001 differ by less than the tolerance of values_equal, 21 does not
SensorStamps == {datetime(2025, 12, 23, 10, 0, 0), datetime(2025, 12, 23, 10, 5, 0)}
SensorCells == {None, <<21>>, <<200000>>, <<200001>>}

Frame(index, cols) == [index |-> index, cols |-> cols]

\* the rows of an export file as pd.read_csv returns them: no row, one or
\* two rows with the column Temp (two rows may carry the same timestamp, a
\* timestamp that does not parse is None), or one row with Temp and Hum
ExportRows ==
    { [Timestamp |-> ts, cols |-> [k \in {<< << >>, "Temp">>} |-> temp]] :
        ts \in {None} \cup {<<t>> : t \in SensorStamps}, temp \in SensorCells }

ExportFiles ==
    {<< >>}
    \cup UNION { [1 .. n -> ExportRows] : n \in 1 .. 2 }
    \cup { << [Timestamp |-> <<t>>,
               cols |-> [k \in {<< << >>, "Temp">>, << << >>, "Hum">>} |->
                            IF k[2] = "Temp" THEN c[1] ELSE c[2]]] >> :
            t \in SensorStamps, c \in SensorCells \X (SensorCells \ {<<200001>>}) }

\* read_csv_normalized on the rows of a file: rows without a timestamp are
\* dropped, and of the rows with one timestamp the last one after
\* sort_values("Timestamp") is kept; the default sort is not stable, so any
\* of them may be the last.  The result is the set of frames it may return.
read_csv_normalized(rows) ==
    LET kept == SelectSeq(rows, LAMBDA r : notna(r.Timestamp))
        index == {kept[i].Timestamp[1] : i \in 1 .. Len(kept)}
    IN  IF Len(kept) = 0 THEN {Frame({}, << >>)}
        ELSE { Frame(index, [k \in DOMAIN kept[1].cols |->
                                [t \in index |-> kept[last[t]].cols[k]]]) :
                 last \in { f \in [index -> 1 .. Len(kept)] :
                               \A t \in index : kept[f[t]].Timestamp[1] = t } }

\* the frames read_csv_normalized(fpath) may return for the files of the model
SensorFiles == UNION { read_csv_normalized(rows) : rows \in ExportFiles }

\* df.columns, in the order of the file
columns_of(frame) ==
    SelectSeq(<< << << >>, "Temp">>, << << >>, "Hum">> >>, LAMBDA c : c \in DOMAIN frame.cols)

\* df.empty: no row or no column
is_empty(frame) == frame.index = {} \/ DOMAIN frame.cols = {}

\* Series.reindex(all_timestamps): NaN where the series has no such row
reindex(series, all_timestamps) ==
    [t \in all_timestamps |-> IF t \in DOMAIN series THEN series[t] ELSE None]

\* mutant: the values are compared without a tolerance
isclose_exact(a, b) == a = b

\* np.isclose(float(a), float(b), rtol=1e-5, atol=1e-9), that is
\* |a - b| <= 1e-9 + 1e-5 * |b|; on whole numbers this is
\* 100000 * |a - b| <= |b|
isclose(a, b) == abs(a - b) <= abs(b) \div 100000

values_equal(a, b) ==
    IF ~notna(a) /\ ~notna(b) THEN TRUE
    ELSE IF ~notna(a) \/ ~notna(b) THEN FALSE
    ELSE isclose(a[1], b[1])

\* the timestamps at which the mask is True
find_actual_conflicts(existing, incoming) ==
    { idx \in DOMAIN existing :
        /\ idx \in DOMAIN incoming
        /\ notna(existing[idx]) /\ notna(incoming[idx])
        /\ ~values_equal(existing[idx], incoming[idx]) }

\* f with column c set to series
with_column(f, c, series) ==
    [k \in DOMAIN f \cup {c} |-> IF k = c THEN series ELSE f[k]]

\* the body of "for col in df.columns" for one column: st is the columns of
\* combined and conflict_count before it, the result those after it
merge_column(st, col, file, all_timestamps) ==
    LET incoming == reindex(file.cols[col], all_timestamps)
    IN  IF col \notin DOMAIN st.cols
        THEN [cols |-> with_column(st.cols, col, incoming), count |-> st.count]
        ELSE LET existing == st.cols[col]
                 filled == [t \in all_timestamps |->
                               IF ~notna(existing[t]) /\ notna(incoming[t])
                               THEN incoming[t] ELSE existing[t]]
                 conflict_mask == find_actual_conflicts(filled, incoming)
                 conflict_col == <<generate_conflict_prefixes(st.count + 1), col[2]>>
             IN  IF conflict_mask = {}
                 THEN [cols |-> with_column(st.cols, col, filled), count |-> st.count]
                 ELSE [cols |-> with_column(with_column(st.cols, col, filled), conflict_col,
                                    [t \in all_timestamps |->
                                        IF t \in conflict_mask THEN incoming[t] ELSE None]),
                       count |-> st.count + 1]

\* one pass of "for fpath in files" with a non-empty df and combined set
merge_file(comb, count, file) ==
    LET all_timestamps == comb.index \cup file.index
        reindexed == [k \in DOMAIN comb.cols |-> reindex(comb.cols[k], all_timestamps)]
        cols == columns_of(file)
        RECURSIVE go(_, _)
        go(st, i) ==
            IF i > Len(cols) THEN st
            ELSE go(merge_column(st, cols[i], file, all_timestamps), i + 1)
        final == go([cols |-> reindexed, count |-> count], 1)
    IN  [frame |-> Frame(all_timestamps, final.cols), count |-> final.count]

\* after the loop: the columns without any value are removed
drop_empty_columns(frame) ==
    Frame(frame.index,
          [k \in {k \in DOMAIN frame.cols :
                     \E t \in frame.index : notna(frame.cols[k][t])} |-> frame.cols[k]])

\* a file of the sensor is <sensor>_export_<12 digits><tail>.csv: export is
\* the 12 digits as <<yyyymmdd, hhmm>>, tail the rank of the text after them
SensorPaths ==
    { [export |-> <<20251223, 900>>, tail |-> 0],
      [export |-> <<20251223, 900>>, tail |-> 1],
      [export |-> <<20251222, 2300>>, tail |-> 0] }

\* (ts, path.name): the names of one sensor differ from the 12 digits on
get_sort_key(path) == <<path.export[1], path.export[2], path.tail>>

\* the order of Python tuples
tuple_lt(a, b) ==
    \E i \in 1 .. Len(a) : a[i] < b[i] /\ \A j \in 1 .. i - 1 : a[j] = b[j]

\* mutant: the files are sorted with the latest export first
sorted_files_reversed(files) ==
    CHOOSE s \in [1 .. Cardinality(files) -> files] :
        \A i, j \in 1 .. Cardinality(files) :
            i < j => tuple_lt(get_sort_key(s[j]), get_sort_key(s[i]))

\* sorted(files, key=get_sort_key)
sorted_files(files) ==
    CHOOSE s \in [1 .. Cardinality(files) -> files] :
        \A i, j \in 1 .. Cardinality(files) :
            i < j => tuple_lt(get_sort_key(s[i]), get_sort_key(s[j]))

\* combined.reset_index().sort_values("Timestamp"): one row per entry of the
\* index, in ascending order of Timestamp
reset_index(frame) ==
    LET stamps == sorted_seq(frame.index)
    IN  [i \in 1 .. Len(stamps) |->
            [Timestamp |-> stamps[i],
             cols |-> [k \in DOMAIN frame.cols |-> frame.cols[k][stamps[i]]]]]

InitMerge ==
    /\ pc = "merge"
    /\ todo \in { sorted_files(files) :
                    files \in {F \in SUBSET SensorPaths : Cardinality(F) <= MaxFiles} }
    /\ combined = None
    /\ conflict_count = 0
    /\ df = Frame({}, << >>)
    /\ minute_df = << >>
    /\ result = << >>
    /\ calYear = 2000
    /\ calOut = [py |-> None, duck |-> None]
    /\ csv = << >>
    /\ out = [pandas |-> None, polars |-> None, duckdb |-> None]
    /\ drive = None
    /\ synced = None

\* one pass of "for fpath in files": df = read_csv_normalized(fpath), then
\* skip, copy or merge
ProcessFile ==
    /\ pc = "merge"
    /\ todo # << >>
    /\ \E file \in SensorFiles :
          /\ df' = file
          /\ IF is_empty(file)
             THEN UNCHANGED <<combined, conflict_count>>
             ELSE IF combined = None
             THEN combined' = <<file>> /\ UNCHANGED conflict_count
             ELSE LET m == merge_file(combined[1], conflict_count, file)
                  IN  combined' = <<m.frame>> /\ conflict_count' = m.count
    /\ todo' = Tail(todo)
    /\ UNCHANGED <<pc, minute_df, result, calYear, calOut, csv, out, drive, synced>>

\* after the last file: the merged frame is returned, as rows sorted by
\* Timestamp and without the columns that hold no value
ReturnCombined ==
    /\ pc = "merge"
    /\ todo = << >>
    /\ result' = IF combined = None THEN << >>
                  ELSE reset_index(drop_empty_columns(combined[1]))
    /\ pc' = "merged"
    /\ UNCHANGED <<df, minute_df, calYear, calOut, csv, out, combined, conflict_count, todo, drive, synced>>

NextMerge == ProcessFile \/ ReturnCombined

SpecMerge == InitMerge /\ [][NextMerge]_vars

(***************************************************************************)
(* The prefix generator on its own, next to the merge: next(conflict_gen)  *)
(* is called again and again, as a run with that many conflicts does;      *)
(* result holds the prefixes in the order they were returned.              *)
(***************************************************************************)
InitPrefixes ==
    /\ pc = "prefixes"
    /\ conflict_count = 0
    /\ result = << >>
    /\ todo = << >>
    /\ combined = None
    /\ df = Frame({}, << >>)
    /\ minute_df = << >>
    /\ calYear = 2000
    /\ calOut = [py |-> None, duck |-> None]
    /\ csv = << >>
    /\ out = [pandas |-> None, polars |-> None, duckdb |-> None]
    /\ drive = None
    /\ synced = None

\* conflict_count += 1; prefix = next(conflict_gen)
NextConflictPrefix ==
    /\ pc = "prefixes"
    /\ conflict_count < MaxPrefixes
    /\ conflict_count' = conflict_count + 1
    /\ result' = Append(result, generate_conflict_prefixes(conflict_count + 1))
    /\ UNCHANGED <<pc, df, minute_df, calYear, calOut, csv, out, combined, todo, drive, synced>>

NextConflicts == ProcessFile \/ ReturnCombined \/ NextConflictPrefix

SpecConflicts == (InitMerge \/ InitPrefixes) /\ [][NextConflicts]_vars

(***************************************************************************)
(* 20251223-weight-for-streamlit.py: sync_drive_data on a Drive folder.    *)
(* drive.files maps the id of every .txt file of the folder to its text,   *)
(* which is the number of body lines parse_txt_content turns into rows (0  *)
(* for a text without a valid header or body); drive.cache is the rows of  *)
(* processed_weight_data_cache.csv, None while the folder has no such      *)
(* file.  A row is [source_file_id, line].                                 *)
(***************************************************************************)
MaxDriveFiles == 3   \* .txt files the folder may come to hold

FileIds == 1 .. MaxDriveFiles

\* parse_txt_content(content, file_id)
parse_txt_content(content, file_id) ==
    [k \in 1 .. content |-> [source_file_id |-> file_id, line |-> k]]

\* get_master_cache: (None, None) without a cache file; the rows and the id
\* of the file when it downloads and parses; (None, csv_id) when it does not
get_master_cache(cache, readable) ==
    IF cache = None THEN [master_df |-> None, master_id |-> None]
    ELSE IF readable THEN [master_df |-> cache, master_id |-> <<"csv_id">>]
    ELSE [master_df |-> None, master_id |-> <<"csv_id">>]

\* the rows of the new files in the order of the listing; a file whose
\* download fails gives "" and is skipped
RECURSIVE new_rows_of(_, _, _, _)
new_rows_of(files, new_files, downloads, i) ==
    IF i > Len(new_files) THEN << >>
    ELSE (IF new_files[i] \in downloads
          THEN parse_txt_content(files[new_files[i]], new_files[i]) ELSE << >>)
         \o new_rows_of(files, new_files, downloads, i + 1)

\* new_files = [f for f in all_files_meta if f['id'] not in processed_ids]
new_file_ids(files, processed_ids) == {id \in DOMAIN files : id \notin processed_ids}

\* what sync_drive_data returns: full_df when there are new rows, whatever
\* the upload did, and master_df otherwise
returned_rows(master_df, new_rows, success) ==
    IF new_rows # << >> THEN master_df \o new_rows ELSE master_df

\* sync_drive_data on the folder d: readable says whether the cache file
\* can be read, listing is the new files in the order the listing gives
\* them, downloads the files whose download succeeds, upload_ok whether
\* the upload succeeds.  The result is the folder afterwards and a record
\* of the call.
sync_drive_data(d, readable, listing, downloads, upload_ok) ==
    LET master == get_master_cache(d.cache, readable)
        master_df == IF master.master_df = None THEN << >> ELSE master.master_df[1]
        new_rows == new_rows_of(d.files, listing, downloads, 1)
        uploads == new_rows # << >>
        success == uploads /\ upload_ok
    IN  [drive |-> IF success THEN [d EXCEPT !.cache = <<master_df \o new_rows>>] ELSE d,
         call |-> [master_df |-> master_df,
                   downloaded |-> {listing[i] : i \in 1 .. Len(listing)},
                   new_rows |-> new_rows,
                   upload |-> IF ~uploads THEN "none" ELSE IF success THEN "saved" ELSE "failed",
                   returned |-> returned_rows(master_df, new_rows, success)]]

InitDrive ==
    /\ pc = "drive"
    /\ drive = [files |-> << >>, cache |-> None]
    /\ synced = None
    /\ df = << >>
    /\ minute_df = << >>
    /\ result = << >>
    /\ calYear = 2000
    /\ calOut = [py |-> None, duck |-> None]
    /\ csv = << >>
    /\ out = [pandas |-> None, polars |-> None, duckdb |-> None]
    /\ combined = None
    /\ conflict_count = 0
    /\ todo = << >>

\* a new .txt file is put into the folder
AddTxtFile ==
    /\ pc = "drive"
    /\ \E id \in FileIds \ DOMAIN drive.files : \E content \in 0 .. 2 :
          drive' = [drive EXCEPT !.files =
                       [f \in DOMAIN drive.files \cup {id} |->
                           IF f = id THEN content ELSE drive.files[f]]]
    /\ UNCHANGED <<pc, df, minute_df, result, calYear, calOut, csv, out, combined,
                   conflict_count, todo, synced>>

\* one call of sync_drive_data
SyncDriveData ==
    /\ pc = "drive"
    /\ \E readable, upload_ok \in BOOLEAN :
          LET master == get_master_cache(drive.cache, readable)
              master_df == IF master.master_df = None THEN << >> ELSE master.master_df[1]
              processed_ids == {master_df[i].source_file_id : i \in 1 .. Len(master_df)}
              new_files == new_file_ids(drive.files, processed_ids)
          IN  \E listing \in { s \in [1 .. Cardinality(new_files) -> new_files] :
                                  \A i, j \in DOMAIN s : s[i] = s[j] => i = j } :
                \E downloads \in SUBSET new_files :
                    LET r == sync_drive_data(drive, readable, listing, downloads, upload_ok)
                    IN  drive' = r.drive /\ synced' = <<r.call>>
    /\ UNCHANGED <<pc, df, minute_df, result, calYear, calOut, csv, out, combined,
                   conflict_count, todo>>

NextDrive == AddTxtFile \/ SyncDriveData

SpecDrive == InitDrive /\ [][NextDrive]_vars

(***************************************************************************)
(* The local-to-UTC conversion on its own: two local timestamps are handed *)
(* to convert_to_utc (pandas, polars) and to the with_utc CTE (DuckDB).    *)
(***************************************************************************)
\* local timestamps around the start and the end of BST and around the new
\* year, in three consecutive years
LocalClock ==
    UNION { { at_hour(last_sunday(y, 3), 0) + s : s \in {0, 3540, 3600, 5400, 7140, 7200, 10800} }
            \cup { at_hour(last_sunday(y, 10), 0) + s : s \in {3540, 3600, 5400, 7140, 7200, 10800} }
            \cup { datetime(y, 1, 1, 0, 0, 0), datetime(y, 7, 1, 12, 0, 0),
                   datetime(y, 12, 31, 23, 59, 0) } :
            y \in {2023, 2024, 2025} }

InitPair ==
    /\ pc = "pair"
    /\ df \in { << [LocalDateTime |-> a], [LocalDateTime |-> b] >> : a, b \in LocalClock }
    /\ minute_df = << >>
    /\ result = << >>
    /\ calYear = 2000
    /\ calOut = [py |-> None, duck |-> None]
    /\ csv = << >>
    /\ out = [pandas |-> None, polars |-> None, duckdb |-> None]
    /\ drive = None
    /\ synced = None
    /\ combined = None
    /\ conflict_count = 0
    /\ todo = << >>

\* df['UTC_DateTime'] = df['LocalDateTime'].apply(convert_to_utc)
ApplyConvertToUtc ==
    /\ pc = "pair"
    /\ df' = [i \in 1 .. Len(df) |->
                [LocalDateTime |-> df[i].LocalDateTime,
                 UTC_DateTime |-> convert_to_utc(df[i].LocalDateTime)]]
    /\ pc' = "pair_sql"
    /\ UNCHANGED <<minute_df, result, calYear, calOut, csv, out, combined, conflict_count, todo, drive, synced>>

\* the UTC_DateTime column of the with_utc CTE for the same rows
SelectWithUtc ==
    /\ pc = "pair_sql"
    /\ out' = [out EXCEPT !.duckdb =
                   << [i \in 1 .. Len(df) |-> with_utc(df[i].LocalDateTime)] >>]
    /\ pc' = "pair_done"
    /\ UNCHANGED <<df, minute_df, result, calYear, calOut, csv, combined, conflict_count, todo, drive, synced>>

NextPair == ApplyConvertToUtc \/ SelectWithUtc

SpecPair == InitPair /\ [][NextPair]_vars

(***************************************************************************)
(* The BST calculators on their own: a year is handed to last_sunday /     *)
(* is_bst of the Python scripts and to the bst_boundaries CTE of the       *)
(* DuckDB scripts.                                                         *)
(***************************************************************************)
InitCal ==
    /\ pc = "calendar"
    /\ df = << >>
    /\ minute_df = << >>
    /\ result = << >>
    /\ calYear \in Years
    /\ calOut = [py |-> None, duck |-> None]
    /\ csv = << >>
    /\ out = [pandas |-> None, polars |-> None, duckdb |-> None]
    /\ drive = None
    /\ synced = None
    /\ combined = None
    /\ conflict_count = 0
    /\ todo = << >>

BstPython ==
    /\ pc = "calendar"
    /\ calOut.py = None
    /\ calOut' = [calOut EXCEPT !.py = <<bst_start(calYear), bst_end(calYear)>>]
    /\ UNCHANGED <<pc, df, minute_df, result, calYear, csv, out, combined, conflict_count, todo, drive, synced>>

BstDuckDB ==
    /\ pc = "calendar"
    /\ calOut.duck = None
    /\ calOut' = [calOut EXCEPT !.duck = <<duck_bst_start(calYear), duck_bst_end(calYear)>>]
    /\ UNCHANGED <<pc, df, minute_df, result, calYear, csv, out, combined, conflict_count, todo, drive, synced>>

NextCal == BstPython \/ BstDuckDB

SpecCal == InitCal /\ [][NextCal]_vars


(***************************************************************************)
(* Statements.                                                             *)
(***************************************************************************)
Expanded == pc \in {"bucket", "aggregate", "done"}
Converted == pc \in {"deltas", "expand", "bucket", "aggregate", "done", "KeyError"}

MinuteRows == {minute_df[i] : i \in 1 .. Len(minute_df)}
IsPeakRow(r) == notna(r.P_Value) /\ ~notna(r.OP_Value)
IsOffPeakRow(r) == notna(r.OP_Value) /\ ~notna(r.P_Value)

\* C3 (as stated): a minute is Peak exactly when the UK wall clock at that
\* minute (UTC + 1 h inside BST) is after 06:30 and not after 23:30.
C3_PeakByLocalClock ==
    Expanded =>
        \A r \in MinuteRows :
            /\ IsPeakRow(r) <=> InPeakWindow(time_of(UkClockAt(r.MinuteGrid)))
            /\ IsOffPeakRow(r) <=> ~InPeakWindow(time_of(UkClockAt(r.MinuteGrid)))

\* C3 (amended): a minute is Peak exactly when the time of day of its
\* UTC-normalized grid timestamp is after 06:30 and not after 23:30, and
\* Off-Peak otherwise, also inside BST where the wall clock is an hour ahead.
C3_PeakByGridClock ==
    Expanded =>
        \A r \in MinuteRows :
            /\ IsPeakRow(r) <=> InPeakWindow(time_of(r.MinuteGrid))
            /\ IsOffPeakRow(r) <=> ~InPeakWindow(time_of(r.MinuteGrid))

\* a BST minute that the wall clock puts in the Peak window and the grid
\* clock does not (06:30 UTC is 07:30 BST), classified Off-Peak
C3_Witness ==
    /\ Expanded
    /\ \E r \in MinuteRows :
          /\ UkClockAt(r.MinuteGrid) = r.MinuteGrid + 3600
          /\ InPeakWindow(time_of(UkClockAt(r.MinuteGrid)))
          /\ ~InPeakWindow(time_of(r.MinuteGrid))
          /\ IsOffPeakRow(r)

MinuteOfDay(dt) == time_of(dt) \div 60

\* C4: on whole minutes, 06:30 is Off-Peak, 06:31 Peak, 23:30 Peak, 23:31
\* Off-Peak; every minute 06:31 .. 23:30 is Peak, every other one Off-Peak.
C4_BoundaryInclusivity ==
    Expanded =>
        \A r \in MinuteRows :
            r.MinuteGrid % 60 = 0 =>
                LET m == MinuteOfDay(r.MinuteGrid)
                IN  /\ m = 6 * 60 + 30 => IsOffPeakRow(r)
                    /\ m = 6 * 60 + 31 => IsPeakRow(r)
                    /\ m = 23 * 60 + 30 => IsPeakRow(r)
                    /\ m = 23 * 60 + 31 => IsOffPeakRow(r)
                    /\ (6 * 60 + 31 <= m /\ m <= 23 * 60 + 30) => IsPeakRow(r)
                    /\ (m < 6 * 60 + 31 \/ m > 23 * 60 + 30) => IsOffPeakRow(r)

\* the minutes 06:30 and 06:31 are both on the grid
C4_Witness ==
    /\ Expanded
    /\ \E r \in MinuteRows : time_of(r.MinuteGrid) = 6 * 3600 + 30 * 60 /\ IsOffPeakRow(r)
    /\ \E r \in MinuteRows : time_of(r.MinuteGrid) = 6 * 3600 + 31 * 60 /\ IsPeakRow(r)

\* C5: the UTC timestamp of a row is its local timestamp minus one hour when
\* the local timestamp is in [bst_start, bst_end) of its year, and the local
\* timestamp otherwise, by convert_to_utc and by the with_utc CTE alike.
C5_LocalToUtc ==
    Converted =>
        \A i \in 1 .. Len(df) :
            LET t == df[i].LocalDateTime
                w == BstWindowLocal[YearContaining(t)]
            IN  /\ df[i].UTC_DateTime = IF w.start <= t /\ t < w.end THEN t - 3600 ELSE t
                /\ with_utc(t) = IF w.start <= t /\ t < w.end THEN t - 3600 ELSE t
                /\ df[i].UTC_DateTime \in {t, t - 3600}

\* a row exactly at bst_start (shifted) beside a row one minute before it
\* (unchanged)
C5_Witness ==
    /\ pc = "deltas"
    /\ \E i, j \in 1 .. Len(df) :
          /\ df[i].LocalDateTime = datetime(2024, 3, 31, 1, 0, 0)
          /\ df[i].UTC_DateTime = datetime(2024, 3, 31, 0, 0, 0)
          /\ df[j].LocalDateTime = datetime(2024, 3, 31, 0, 59, 0)
          /\ df[j].UTC_DateTime = df[j].LocalDateTime

OnLastSunday(t, y, m, hour) ==
    /\ IsSunday(toordinal(t))
    /\ ymd2ord(y, m, 25) <= toordinal(t)
    /\ toordinal(t) <= ymd2ord(y, m, 31)
    /\ time_of(t) = hour * 3600

\* C6: for every year BST starts at 01:00 on a Sunday among 25-31 March and
\* ends at 02:00 on a Sunday among 25-31 October, and last_sunday and the
\* DAYOFWEEK expression give the same instants.
C6_BstOnLastSunday ==
    pc = "calendar" =>
        /\ notna(calOut.py) =>
              /\ OnLastSunday(calOut.py[1], calYear, 3, 1)
              /\ OnLastSunday(calOut.py[2], calYear, 10, 2)
        /\ notna(calOut.duck) =>
              /\ OnLastSunday(calOut.duck[1], calYear, 3, 1)
              /\ OnLastSunday(calOut.duck[2], calYear, 10, 2)
        /\ (notna(calOut.py) /\ notna(calOut.duck)) => calOut.py = calOut.duck

\* both calculators have run for a year whose 31 March is itself a Sunday
C6_Witness ==
    /\ pc = "calendar"
    /\ notna(calOut.py)
    /\ notna(calOut.duck)
    /\ toordinal(calOut.py[1]) = ymd2ord(calYear, 3, 31)


(***************************************************************************)
(* Sums, intervals and buckets as the statements read them.                *)
(***************************************************************************)
Bucketed == pc \in {"aggregate", "done"}

CellOrZero(cell) == IF notna(cell) THEN cell[1] ELSE rat(0, 1)

\* the sum of the non-null cells of a column over rows lo .. hi
RECURSIVE SumCol(_, _, _, _)
SumCol(rows, col, lo, hi) ==
    IF lo > hi THEN rat(0, 1)
    ELSE IF lo = hi THEN CellOrZero(rows[lo][col])
    ELSE LET mid == (lo + hi) \div 2
         IN  rat_add(SumCol(rows, col, lo, mid), SumCol(rows, col, mid + 1, hi))

RECURSIVE SumUsage(_, _, _)
SumUsage(rows, col, i) ==
    IF i > Len(rows) THEN rat(0, 1) ELSE rat_add(rows[i][col], SumUsage(rows, col, i + 1))

\* the sum of a delta column over the intervals that satisfy Keep
RECURSIVE SumDelta(_, _, _)
SumDelta(col, Keep(_), i) ==
    IF i > Len(df) THEN 0
    ELSE (IF Keep(i) THEN df[i][col][1] ELSE 0) + SumDelta(col, Keep, i + 1)

\* the minutes start + k * 1 minute, k >= 1, up to the next reading
SlotsOf(i) ==
    {df[i].UTC_DateTime + 60 * k :
        k \in 1 .. ((df[i].Next_DateTime[1] - df[i].UTC_DateTime) \div 60)}

HasPeakMinute(i) == \E m \in SlotsOf(i) : InPeakWindow(time_of(m))
HasOffPeakMinute(i) == \E m \in SlotsOf(i) : ~InPeakWindow(time_of(m))
AnyInterval(i) == TRUE

\* C1 (as stated): the P_Usage of all buckets sums to the Delta_P of all
\* intervals, and the OP_Usage to the Delta_OP of all intervals.
C1_ConservationAllIntervals ==
    pc = "done" =>
        /\ SumUsage(result, "P_Usage", 1) = rat(SumDelta("Delta_P", AnyInterval, 1), 1)
        /\ SumUsage(result, "OP_Usage", 1) = rat(SumDelta("Delta_OP", AnyInterval, 1), 1)

\* C1 (amended): the P_Usage of all buckets sums to the Delta_P of the
\* intervals that hold at least one Peak minute, and the OP_Usage to the
\* Delta_OP of the intervals that hold at least one Off-Peak minute.
C1_ConservationPopulatedIntervals ==
    pc = "done" =>
        /\ SumUsage(result, "P_Usage", 1) = rat(SumDelta("Delta_P", HasPeakMinute, 1), 1)
        /\ SumUsage(result, "OP_Usage", 1) = rat(SumDelta("Delta_OP", HasOffPeakMinute, 1), 1)

\* a finished run with an interval that has Peak minutes and a nonzero
\* Delta_P and another one that has a nonzero Delta_P and no Peak minute
C1_Witness ==
    /\ pc = "done"
    /\ \E i, j \in 1 .. Len(df) :
          /\ HasPeakMinute(i) /\ df[i].Delta_P[1] # 0
          /\ ~HasPeakMinute(j) /\ df[j].Delta_P[1] # 0 /\ SlotsOf(j) # {}

IntervalRows(i) == SelectSeq(minute_df, LAMBDA r : r.Interval = i)

\* C2: in an interval with Np >= 1 Peak minutes every Peak minute carries
\* Delta_P / Np and the Peak values sum to Delta_P; with Nop >= 1 Off-Peak
\* minutes every Off-Peak minute carries Delta_OP / Nop and they sum to
\* Delta_OP.
C2_UniformApportionment ==
    Expanded =>
        \A i \in 1 .. Len(df) :
            LET rows == IntervalRows(i)
                peak == {k \in 1 .. Len(rows) : InPeakWindow(time_of(rows[k].MinuteGrid))}
                off == (1 .. Len(rows)) \ peak
            IN  /\ peak # {} =>
                      /\ \A k \in peak :
                            rows[k].P_Value = <<rat(df[i].Delta_P[1], Cardinality(peak))>>
                      /\ SumCol(rows, "P_Value", 1, Len(rows)) = rat(df[i].Delta_P[1], 1)
                /\ off # {} =>
                      /\ \A k \in off :
                            rows[k].OP_Value = <<rat(df[i].Delta_OP[1], Cardinality(off))>>
                      /\ SumCol(rows, "OP_Value", 1, Len(rows)) = rat(df[i].Delta_OP[1], 1)

\* an interval with two Peak minutes and an Off-Peak minute, its deltas
\* nonzero
C2_Witness ==
    /\ Expanded
    /\ \E i \in 1 .. Len(df) :
          /\ Cardinality({m \in SlotsOf(i) : InPeakWindow(time_of(m))}) >= 2
          /\ HasOffPeakMinute(i)
          /\ df[i].Delta_P[1] # 0
          /\ df[i].Delta_OP[1] # 0
          /\ Len(IntervalRows(i)) = Cardinality(SlotsOf(i))

\* b is the latest wall-clock multiple of 15 minutes that is <= m - 1 minute
LatestQuarterBefore(b, m) ==
    /\ time_of(b) % (15 * 60) = 0
    /\ b <= m - 60
    /\ m - 60 < b + 15 * 60

HourStart(m) == m - (m % 3600)
MinuteOfHour(m) == (m % 3600) \div 60

SameDay(a, b) == toordinal(a) = toordinal(b)
InQuarterTo0630(m) == time_of(m) >= 6 * 3600 + 16 * 60 /\ time_of(m) <= 6 * 3600 + 30 * 60

\* C8 (as stated): minute 06:31 is in the bucket of the minutes 06:16 ..
\* 06:30.
C8_Minute0631InEarlierBucket ==
    Bucketed =>
        \A r \in MinuteRows :
            time_of(r.MinuteGrid) = 6 * 3600 + 31 * 60 =>
                /\ time_of(r.Bucket) = 6 * 3600 + 15 * 60
                /\ \A q \in MinuteRows :
                      (SameDay(q.MinuteGrid, r.MinuteGrid) /\ InQuarterTo0630(q.MinuteGrid))
                          => q.Bucket = r.Bucket

\* C8 (amended): minute 06:31 is in the bucket keyed 06:30, the first of
\* the minutes 06:31 .. 06:45; the minutes 06:16 .. 06:30 are in the bucket
\* before it, keyed 06:15.
C8_Minute0631OpensBucket0630 ==
    Bucketed =>
        \A r \in MinuteRows :
            time_of(r.MinuteGrid) = 6 * 3600 + 31 * 60 =>
                /\ time_of(r.Bucket) = 6 * 3600 + 30 * 60
                /\ \A q \in MinuteRows :
                      (SameDay(q.MinuteGrid, r.MinuteGrid) /\ InQuarterTo0630(q.MinuteGrid))
                          => q.Bucket = r.Bucket - 15 * 60

\* the minutes 06:30 and 06:31 of one day, in two buckets
C8_Witness ==
    /\ Bucketed
    /\ \E r, q \in MinuteRows :
          /\ time_of(r.MinuteGrid) = 6 * 3600 + 31 * 60
          /\ q.MinuteGrid = r.MinuteGrid - 60
          /\ q.Bucket # r.Bucket

\* the example scenario: readings at 2024-01-01T00:00 (P = 100) and
\* 2024-01-01T00:03 (P = 104) and no other
IsExample ==
    /\ Expanded
    /\ Len(df) = 1
    /\ df[1].LocalDateTime = datetime(2024, 1, 1, 0, 0, 0)
    /\ df[1].P = 100
    /\ df[1].Next_DateTime = <<datetime(2024, 1, 1, 0, 3, 0)>>
    /\ df[1].Delta_P = <<4>>

ExampleGrid ==
    << datetime(2024, 1, 1, 0, 1, 0), datetime(2024, 1, 1, 0, 2, 0),
       datetime(2024, 1, 1, 0, 3, 0) >>

GridOf(rows) == [k \in 1 .. Len(rows) |-> rows[k].MinuteGrid]

\* C9 (as stated): the example gives the minutes 00:01, 00:02, 00:03, each
\* carrying 4/3 of the Delta_P of 4, and the usage of 4 is in the output.
C9_ExampleCarriesDeltaP ==
    IsExample =>
        /\ GridOf(minute_df) = ExampleGrid
        /\ \A r \in MinuteRows : r.P_Value = <<rat(4, 3)>>
        /\ pc = "done" => SumUsage(result, "P_Usage", 1) = rat(4, 1)

\* C9 (amended): the example gives the minutes 00:01, 00:02, 00:03, all
\* Off-Peak: each carries no Peak value and a third of Delta_OP, and the
\* output holds a P_Usage of 0 and an OP_Usage of Delta_OP; the Delta_P of 4
\* is in no minute and in no bucket.
C9_ExampleCarriesDeltaOP ==
    IsExample =>
        /\ GridOf(minute_df) = ExampleGrid
        /\ \A r \in MinuteRows :
              /\ r.P_Value = None
              /\ r.OP_Value = <<rat(df[1].Delta_OP[1], 3)>>
        /\ pc = "done" =>
              /\ SumUsage(result, "P_Usage", 1) = rat(0, 1)
              /\ SumUsage(result, "OP_Usage", 1) = rat(df[1].Delta_OP[1], 1)

\* the example has run to the end, with a nonzero Delta_OP
C9_Witness == IsExample /\ pc = "done" /\ df[1].Delta_OP[1] # 0

\* C10 (as stated): in the example minute 00:01 is in the bucket keyed
\* 2023-12-31T23:45 and the three minutes are in two buckets.
C10_ExampleSplitsBuckets ==
    (IsExample /\ Bucketed) =>
        /\ \A r \in MinuteRows :
              r.MinuteGrid = datetime(2024, 1, 1, 0, 1, 0)
                  => r.Bucket = datetime(2023, 12, 31, 23, 45, 0)
        /\ Cardinality({r.Bucket : r \in MinuteRows}) = 2

\* C10 (amended): in the example minute 00:01 is in the bucket keyed
\* 2024-01-01T00:00, and so are 00:02 and 00:03: the output is the one
\* bucket 00:00 with Minutes = 3.
C10_ExampleOneBucket ==
    (IsExample /\ Bucketed) =>
        /\ \A r \in MinuteRows :
              /\ r.Bucket = datetime(2024, 1, 1, 0, 0, 0)
              /\ polars_bucket(r.MinuteGrid) = datetime(2024, 1, 1, 0, 0, 0)
        /\ pc = "done" =>
              /\ Len(result) = 1
              /\ result[1].Bucket = datetime(2024, 1, 1, 0, 0, 0)
              /\ result[1].Minutes = 3
              /\ result[1].MinDateTime = datetime(2024, 1, 1, 0, 1, 0)
              /\ result[1].MaxDateTime = datetime(2024, 1, 1, 0, 3, 0)

\* the example has been aggregated into its bucket table
C10_Witness == IsExample /\ pc = "done" /\ Len(result) = 1 /\ Len(minute_df) = 3

(***************************************************************************)
(* The minute grid, the intervals and the bucket table.                    *)
(***************************************************************************)
\* C11: the minutes of an interval [start, end] are exactly start + k
\* minutes for k >= 1 up to end, in this order: floor((end - start) / 1
\* minute) of them, none when end <= start; start is never one of them, and
\* end is the last one whenever end - start is a whole, positive number of
\* minutes.
C11_MinuteEnumeration ==
    Expanded =>
        \A i \in 1 .. Len(df) :
            LET start == df[i].UTC_DateTime
                end == df[i].Next_DateTime[1]
                grid == GridOf(IntervalRows(i))
                n == IF end <= start THEN 0 ELSE (end - start) \div 60
            IN  /\ Len(grid) = n
                /\ \A k \in 1 .. Len(grid) : grid[k] = start + k * 60
                /\ \A k \in 1 .. Len(grid) : grid[k] # start /\ grid[k] <= end
                /\ start + (Len(grid) + 1) * 60 > end
                /\ (end > start /\ (end - start) % 60 = 0) => grid[Len(grid)] = end

\* an interval of half a minute (no minute), one that ends on a whole
\* minute after its start (its end is its last minute) and, in some run, one
\* that ends half a minute after its last minute
C11_Witness ==
    /\ Expanded
    /\ \E i, j \in 1 .. Len(df) :
          /\ df[i].Next_DateTime[1] - df[i].UTC_DateTime = 30
          /\ IntervalRows(i) = << >>
          /\ df[j].Next_DateTime[1] - df[j].UTC_DateTime = 60
          /\ Len(IntervalRows(j)) = 1
          /\ IntervalRows(j)[1].MinuteGrid = df[j].Next_DateTime[1]

\* the run has got past the expansion of the intervals (or has failed after it)
PastExpand == pc \in {"bucket", "aggregate", "done", "KeyError"}

\* no minute of interval i carries a value in column col
NoValueIn(i, col) == \A k \in 1 .. Len(IntervalRows(i)) : IntervalRows(i)[k][col] = None

\* C12: a run with an interval whose Peak minute count is 0 (or whose
\* Off-Peak count is 0) does not fail, and no minute of that interval
\* carries a value of that category.
C12_ZeroCountHandled ==
    PastExpand =>
        \A i \in 1 .. Len(df) :
            /\ ~HasPeakMinute(i) => (pc # "KeyError" /\ NoValueIn(i, "P_Value"))
            /\ ~HasOffPeakMinute(i) => (pc # "KeyError" /\ NoValueIn(i, "OP_Value"))

\* the latest UTC_DateTime of the readings table
LastReadingUtc(rows) == set_max({rows[i].UTC_DateTime : i \in 1 .. Len(rows)})

\* C13: the last reading in UTC order has no next reading and is dropped
\* without error: n >= 1 readings leave exactly n - 1 intervals (none
\* leaves none), the last interval ends at the last reading, and no minute
\* is later than the last reading.
C13_LastReadingNoSlots ==
    /\ [][(pc = "deltas") =>
              /\ pc' = "expand"
              /\ Len(df') = (IF Len(df) >= 1 THEN Len(df) - 1 ELSE 0)
              /\ \A i \in 1 .. Len(df') :
                    /\ df'[i].UTC_DateTime = df[i].UTC_DateTime
                    /\ df'[i].Next_DateTime = <<df[i + 1].UTC_DateTime>>
                    /\ df'[i].Next_DateTime[1] <= LastReadingUtc(df)
              /\ Len(df') >= 1 => df'[Len(df')].Next_DateTime = <<LastReadingUtc(df)>>]_vars
    /\ [](Expanded =>
              \A r \in MinuteRows :
                  /\ r.Interval \in 1 .. Len(df)
                  /\ r.MinuteGrid <= df[r.Interval].Next_DateTime[1]
                  /\ r.MinuteGrid <= df[Len(df)].Next_DateTime[1])

\* three readings have left two intervals, and the last minute of the grid
\* is the last reading itself
C13_Witness ==
    /\ Expanded
    /\ Len(df) = MaxReadings - 1
    /\ Len(minute_df) >= 2
    /\ minute_df[Len(minute_df)].MinuteGrid = df[Len(df)].Next_DateTime[1]
    /\ minute_df[Len(minute_df)].Interval = Len(df)

RECURSIVE SumMinutes(_, _)
SumMinutes(rows, i) ==
    IF i > Len(rows) THEN 0 ELSE rows[i].Minutes + SumMinutes(rows, i + 1)

\* C14: no minute timestamp comes from two intervals (nor twice from one);
\* every minute of the grid is counted in exactly one row of the output,
\* the row of its bucket, whose Minutes is the number of its minutes; the
\* Minutes of the output add up to the number of minutes generated.
C14_MinutePartition ==
    /\ Expanded =>
          \A k, l \in 1 .. Len(minute_df) :
              minute_df[k].MinuteGrid = minute_df[l].MinuteGrid =>
                  (k = l /\ minute_df[k].Interval = minute_df[l].Interval)
    /\ pc = "done" =>
          /\ \A k \in 1 .. Len(minute_df) :
                Cardinality({j \in 1 .. Len(result) :
                                result[j].Bucket = minute_df[k].Bucket}) = 1
          /\ \A j \in 1 .. Len(result) :
                result[j].Minutes =
                    Cardinality({k \in 1 .. Len(minute_df) :
                                    minute_df[k].Bucket = result[j].Bucket})
          /\ SumMinutes(result, 1) = Len(minute_df)

\* a finished run whose two intervals both have minutes, in two buckets or
\* more, with Peak and Off-Peak minutes
C14_Witness ==
    /\ pc = "done"
    /\ Len(df) = 2
    /\ IntervalRows(1) # << >>
    /\ IntervalRows(2) # << >>
    /\ Len(result) >= 2
    /\ \E r \in MinuteRows : IsPeakRow(r)
    /\ \E r \in MinuteRows : IsOffPeakRow(r)

\* C15: the output has one row for each bucket that received a minute and
\* no other row: its keys are the bucket keys of the grid, no key occurs
\* twice, no row has Minutes = 0, and the keys are strictly ascending.
C15_OneRowPerBucketAscending ==
    pc = "done" =>
        /\ {result[j].Bucket : j \in 1 .. Len(result)} = {r.Bucket : r \in MinuteRows}
        /\ \A j, k \in 1 .. Len(result) : result[j].Bucket = result[k].Bucket => j = k
        /\ \A j \in 1 .. Len(result) : result[j].Minutes >= 1
        /\ \A j \in 1 .. Len(result) - 1 : result[j].Bucket < result[j + 1].Bucket

\* an output of two buckets or more, one of them holding several minutes
C15_Witness ==
    /\ pc = "done"
    /\ Len(result) >= 2
    /\ \E j \in 1 .. Len(result) : result[j].Minutes >= 2

(***************************************************************************)
(* The bucket sums, the degenerate inputs and the three scripts compared.  *)
(***************************************************************************)
BucketRows(b) == SelectSeq(minute_df, LAMBDA r : r.Bucket = b)
HasValue(rows, col) == \E k \in 1 .. Len(rows) : notna(rows[k][col])

\* what the output reports for a bucket: the sum of its non-null values, or
\* null when it has none
SumOrNull(rows, col) ==
    IF HasValue(rows, col) THEN <<SumCol(rows, col, 1, Len(rows))>> ELSE None

\* C16: the P_Usage written for a bucket is the sum of the non-null Peak
\* values of its minutes, and null (an empty field, not 0) when none of its
\* minutes carries a Peak value; the same for OP_Usage.
C16_NullUsageDistinguishable ==
    pc = "done" =>
        \A j \in 1 .. Len(result) :
            LET written == to_csv(result)[j]
                rows == BucketRows(result[j].Bucket)
            IN  /\ written.P_Usage = SumOrNull(rows, "P_Value")
                /\ written.OP_Usage = SumOrNull(rows, "OP_Value")

Scripts == {"pandas", "polars", "duckdb"}
HasRun(s) == notna(out[s])
Parseable == \A i \in 1 .. Len(csv) : csv[i].Text = "ok"

\* C17: on an input of no reading, or of one reading, every script ends
\* without error and writes an empty bucket table.
C17_EmptyInputEmptyOutput ==
    (Parseable /\ Len(csv) <= 1) =>
        \A s \in Scripts : HasRun(s) => out[s][1] = Written(<< >>)

\* the file without the rows whose date or time does not parse
ReadableRows == SelectSeq(csv, LAMBDA r : r.Text = "ok")

\* what a script may produce on the rows given
Outcomes(s, rows) ==
    LET frame == [i \in 1 .. Len(rows) |-> utc_row(rows[i], convert_to_utc(rows[i].LocalDateTime))]
    IN  IF s = "pandas"
        THEN {pandas_script(rows, perm) : perm \in sort_orders(frame, TRUE)}
        ELSE IF s = "polars"
        THEN {polars_script(rows, perm, ok) :
                 perm \in sort_orders(frame, FALSE), ok \in BOOLEAN}
        ELSE {duckdb_script(rows, perm, ok) :
                 perm \in sort_orders(duck_with_utc(rows), TRUE), ok \in BOOLEAN}

\* C18: a row whose date or time cannot be parsed does not abort a script,
\* and the script produces what it produces on the file without that row.
C18_UnparseableRowDropped ==
    ~Parseable =>
        \A s \in Scripts : HasRun(s) => out[s][1] \in Outcomes(s, ReadableRows)

DistinctTimestamps ==
    \A i, j \in 1 .. Len(csv) : csv[i].LocalDateTime = csv[j].LocalDateTime => i = j

\* C19: on parseable readings at distinct instants that all three scripts
\* process to the end, the three bucket tables are the same: the same
\* Bucket keys and, for each, the same MinDateTime, MaxDateTime, Minutes,
\* P_Usage and OP_Usage.
C19_ScriptsAgree ==
    (pc = "compared" /\ Parseable /\ DistinctTimestamps
        /\ \A s \in Scripts : out[s][1].error = "") =>
        /\ out["pandas"][1].table = out["polars"][1].table
        /\ out["pandas"][1].table = out["duckdb"][1].table

(***************************************************************************)
(* C20.  Sensor merge.                                                     *)
(***************************************************************************)
\* a step in which a non-empty file is merged into the frame of the files
\* before it
MergesFile ==
    /\ pc = "merge" /\ todo # << >> /\ todo' = Tail(todo)
    /\ notna(combined) /\ ~is_empty(df')

\* the timestamps at which column col has a non-null value in the frame
\* before the step and a non-null value in the incoming file, and the two
\* differ
ConflictStamps(col, Differ(_, _)) ==
    { t \in combined[1].index \cap df'.index :
        /\ notna(combined[1].cols[col][t]) /\ notna(df'.cols[col][t])
        /\ Differ(combined[1].cols[col][t][1], df'.cols[col][t][1]) }

\* the conflict columns of column col that the step creates
CreatedFor(col) ==
    { k \in DOMAIN combined'[1].cols \ DOMAIN combined[1].cols : k[1] # << >> /\ k[2] = col[2] }

\* for every column the incoming file shares with the frame: a conflict
\* column is created iff some timestamp has two non-null values that differ,
\* it holds the incoming value exactly there, and it is empty elsewhere
ConflictColumnIff(Differ(_, _)) ==
    MergesFile =>
        \A col \in DOMAIN df'.cols \cap DOMAIN combined[1].cols :
            LET stamps == ConflictStamps(col, Differ)
            IN  /\ (stamps # {}) <=> (CreatedFor(col) # {})
                /\ Cardinality(CreatedFor(col)) <= 1
                /\ \A k \in CreatedFor(col) : \A t \in combined'[1].index :
                       combined'[1].cols[k][t] =
                           IF t \in stamps THEN df'.cols[col][t] ELSE None

\* C20 (as stated): while the files of one sensor are merged, a conflict
\* column is created for a column of an incoming file if and only if at
\* least one timestamp has a non-null existing value and a non-null incoming
\* value that are not the same value; it holds the incoming value at exactly
\* those timestamps and is empty everywhere else.
C20_ConflictColumnIffValuesDiffer ==
    [][ConflictColumnIff(LAMBDA a, b : a # b)]_vars

\* C20 (amended): while the files of one sensor are merged, a conflict
\* column is created for a column of an incoming file if and only if at
\* least one timestamp has a non-null existing value and a non-null incoming
\* value that differ by more than the tolerance of values_equal
\* (|existing - incoming| > 1e-9 + 1e-5 * |incoming|); it holds the incoming
\* value at exactly those timestamps and is empty everywhere else, and no
\* conflict column is created when both values exist and are equal within
\* that tolerance.
C20_ConflictColumnIffBeyondTolerance ==
    [][ConflictColumnIff(LAMBDA a, b : abs(a - b) > abs(b) \div 100000)]_vars

\* the last file merged had, in column Temp, a value far from the existing
\* one at one timestamp and a different value within the tolerance at the
\* other: the conflict column holds the first and is empty at the second
C20_Witness ==
    /\ pc = "merge" /\ notna(combined) /\ conflict_count = 1
    /\ ~is_empty(df) /\ df.index = SensorStamps
    /\ << <<"A">>, "Temp">> \in DOMAIN combined[1].cols
    /\ \E t, u \in SensorStamps :
          /\ combined[1].cols[<< << >>, "Temp">>][t] = <<200000>>
          /\ df.cols[<< << >>, "Temp">>][t] = <<21>>
          /\ combined[1].cols[<< <<"A">>, "Temp">>][t] = <<21>>
          /\ combined[1].cols[<< << >>, "Temp">>][u] = <<200000>>
          /\ df.cols[<< << >>, "Temp">>][u] = <<200001>>
          /\ combined[1].cols[<< <<"A">>, "Temp">>][u] = None

(***************************************************************************)
(* C21.  Deltas between the readings adjacent in UTC order.                *)
(***************************************************************************)
\* the UTC timestamp of row i of the input file
CsvUtc(i) == convert_to_utc(csv[i].LocalDateTime)

\* the orders of the rows of the file that ascend in UTC timestamp
UtcOrders ==
    { perm \in Permutations(1 .. Len(csv)) :
        \A i \in 1 .. Len(csv) - 1 : CsvUtc(perm[i]) <= CsvUtc(perm[i + 1]) }

\* the whole-number sum of a delta column of the table
RECURSIVE SumDeltas(_, _)
SumDeltas(col, i) ==
    IF i > Len(df) THEN 0 ELSE df[i][col][1] + SumDeltas(col, i + 1)

\* C21: the deltas are taken between the readings adjacent in UTC-sorted
\* order, not in the order of the file: for n >= 2 readings there is an
\* ascending UTC order of the rows in which interval i has
\* Delta_P = P[i+1] - P[i] and Delta_OP = OP[i+1] - OP[i], and the deltas of
\* all intervals sum to P (OP) of the last reading minus P (OP) of the first
\* reading of that order.
C21_DeltasInUtcOrder ==
    (pc = "expand" /\ Len(csv) >= 2) =>
        /\ Len(df) = Len(csv) - 1
        /\ \E perm \in UtcOrders :
              /\ \A i \in 1 .. Len(df) :
                    /\ df[i].UTC_DateTime = CsvUtc(perm[i])
                    /\ df[i].Next_DateTime = <<CsvUtc(perm[i + 1])>>
                    /\ df[i].Delta_P = <<csv[perm[i + 1]].P - csv[perm[i]].P>>
                    /\ df[i].Delta_OP = <<csv[perm[i + 1]].OP - csv[perm[i]].OP>>
              /\ SumDeltas("Delta_P", 1) = csv[perm[Len(csv)]].P - csv[perm[1]].P
              /\ SumDeltas("Delta_OP", 1) = csv[perm[Len(csv)]].OP - csv[perm[1]].OP

\* three readings stand in the file in an order that does not ascend in
\* UTC, with distinct timestamps, and the deltas sum to something else than
\* the last row of the file minus its first row
C21_Witness ==
    /\ pc = "expand" /\ Len(csv) = 3 /\ Len(df) = 2
    /\ CsvUtc(1) > CsvUtc(2) /\ CsvUtc(3) > CsvUtc(1)
    /\ SumDeltas("Delta_P", 1) # 0
    /\ SumDeltas("Delta_P", 1) # csv[3].P - csv[1].P

(***************************************************************************)
(* C22.  Readings with the same timestamp.                                 *)
(***************************************************************************)
\* interval i lies between two readings with the same UTC timestamp
ZeroLength(i) == df[i].Next_DateTime[1] = df[i].UTC_DateTime

\* the rows of the minute grid that interval i produced for minute m
SlotRows(i, m) ==
    { k \in 1 .. Len(minute_df) :
        minute_df[k].Interval = i /\ minute_df[k].MinuteGrid = m }

\* every minute of every interval is on the grid exactly once, and the
\* minutes of one category of one interval carry one rate
GridWithoutDuplication ==
    \A i \in 1 .. Len(df) :
        /\ ZeroLength(i) => Len(IntervalRows(i)) = 0
        /\ \A m \in SlotsOf(i) : Cardinality(SlotRows(i, m)) = 1
        /\ \A col \in {"P_Value", "OP_Value"} :
              Cardinality({ minute_df[k][col] :
                              k \in {k \in 1 .. Len(minute_df) :
                                        minute_df[k].Interval = i /\ notna(minute_df[k][col])} }) <= 1

\* C22: readings with the same UTC timestamp do not abort the run; the
\* zero-length interval between them generates no minute slot, and every
\* minute slot of the other intervals appears exactly once with a single
\* rate.
C22_DuplicatesTolerated ==
    (PastExpand /\ \E i \in 1 .. Len(df) : ZeroLength(i)) =>
        (pc # "KeyError" /\ GridWithoutDuplication)

(***************************************************************************)
(* C23.  The conversion and the order of the local timestamps.             *)
(***************************************************************************)
\* the conversion keeps the order of the two timestamps of the pair, as far
\* as both satisfy Covered
KeepsOrder(Covered(_)) ==
    \A i, j \in 1 .. Len(df) :
        (/\ Covered(df[i].LocalDateTime) /\ Covered(df[j].LocalDateTime)
         /\ df[i].LocalDateTime < df[j].LocalDateTime) =>
            /\ pc \in {"pair_sql", "pair_done"} => df[i].UTC_DateTime <= df[j].UTC_DateTime
            /\ pc = "pair_done" => out.duckdb[1][i] <= out.duckdb[1][j]

\* the UK wall clock shows t at some instant: every local timestamp but
\* those from 01:00 to 02:00 on the last Sunday of March, which the clock
\* skips
OnUkClock(t) == UkClockAt(t) = t \/ UkClockAt(t - 3600) = t

\* C23 (as stated): for any two local timestamps a < b,
\* convert_to_utc(a) <= convert_to_utc(b).
C23_ConversionKeepsOrder == KeepsOrder(LAMBDA t : TRUE)

\* C23 (amended): for any two local timestamps a < b that exist on the UK
\* clock (neither lies in the hour from 01:00 to 02:00 that the clock skips
\* on the BST start day), convert_to_utc(a) <= convert_to_utc(b).
C23_ConversionKeepsOrderOnUkClock == KeepsOrder(OnUkClock)

\* 00:59 and 02:00 of a BST start day, a minute apart on the clock: the
\* first is not in BST, the second is, and both conversions keep the order
C23_Witness ==
    /\ pc = "pair_done"
    /\ OnUkClock(df[1].LocalDateTime) /\ OnUkClock(df[2].LocalDateTime)
    /\ df[2].LocalDateTime - df[1].LocalDateTime = 3660
    /\ ~is_bst(df[1].LocalDateTime) /\ is_bst(df[2].LocalDateTime)
    /\ df[2].UTC_DateTime - df[1].UTC_DateTime = 60
    /\ out.duckdb[1][2] - out.duckdb[1][1] = 60

(***************************************************************************)
(* C24.  The window of a bucket.                                           *)
(***************************************************************************)
\* every reading of the run lies on a whole minute
WholeMinutes ==
    \A i \in 1 .. Len(df) :
        df[i].UTC_DateTime % 60 = 0 /\ df[i].Next_DateTime[1] % 60 = 0

\* C24: in every output row Minutes is between 1 and 15 and
\* Bucket < MinDateTime <= MaxDateTime < Bucket + 16 minutes; when all
\* reading timestamps are whole minutes, Bucket + 1 minute <= MinDateTime
\* and MaxDateTime <= Bucket + 15 minutes.
C24_BucketWindowBounds ==
    pc = "done" =>
        \A j \in 1 .. Len(result) :
            /\ result[j].Minutes \in 1 .. 15
            /\ result[j].Bucket < result[j].MinDateTime
            /\ result[j].MinDateTime <= result[j].MaxDateTime
            /\ result[j].MaxDateTime < result[j].Bucket + 16 * 60
            /\ WholeMinutes =>
                  /\ result[j].Bucket + 60 <= result[j].MinDateTime
                  /\ result[j].MaxDateTime <= result[j].Bucket + 15 * 60

\* a full bucket: fifteen minutes, from Bucket + 1 minute to Bucket + 15
\* minutes
C24_Witness ==
    /\ pc = "done" /\ WholeMinutes
    /\ \E j \in 1 .. Len(result) :
          /\ result[j].Minutes = 15
          /\ result[j].MinDateTime = result[j].Bucket + 60
          /\ result[j].MaxDateTime = result[j].Bucket + 15 * 60

(***************************************************************************)
(* C25.  The gap between two readings is filled.                           *)
(***************************************************************************)
\* C25: when all reading timestamps are whole minutes and the first and
\* the last UTC timestamp differ, every minute from first + 1 minute to
\* last inclusive is a minute slot, the keys of the output are consecutive
\* quarter hours, and every bucket other than the first and the last has
\* Minutes = 15.
C25_GapFilled ==
    (pc = "done" /\ WholeMinutes) =>
        LET first == df[1].UTC_DateTime
            last == df[Len(df)].Next_DateTime[1]
        IN  /\ first < last
            /\ {r.MinuteGrid : r \in MinuteRows} =
                  {first + 60 * k : k \in 1 .. ((last - first) \div 60)}
            /\ \A j \in 1 .. Len(result) - 1 :
                  result[j + 1].Bucket = result[j].Bucket + 15 * 60
            /\ \A j \in 2 .. Len(result) - 1 : result[j].Minutes = 15

\* two readings more than an hour apart: five buckets in a row, the three
\* in the middle full
C25_Witness ==
    /\ pc = "done" /\ WholeMinutes
    /\ \E i \in 1 .. Len(df) : df[i].Next_DateTime[1] - df[i].UTC_DateTime > 3600
    /\ Len(result) >= 5
    /\ result[1].Minutes < 15
    /\ result[3].Minutes = 15

(***************************************************************************)
(* C26.  One category and one value per minute.                            *)
(***************************************************************************)
\* the value columns of a minute row that are not null
ValuesSet(r) == {col \in {"P_Value", "OP_Value"} : notna(r[col])}

\* C26: every generated minute slot carries exactly one non-null value, the
\* one of its tariff category: a Peak minute has a P_Value and no OP_Value,
\* an Off-Peak minute an OP_Value and no P_Value; no minute has both values
\* or neither.
C26_OneValuePerMinute ==
    Expanded =>
        \A k \in 1 .. Len(minute_df) :
            /\ Cardinality(ValuesSet(minute_df[k])) = 1
            /\ ValuesSet(minute_df[k]) =
                  (IF InPeakWindow(time_of(minute_df[k].MinuteGrid))
                   THEN {"P_Value"} ELSE {"OP_Value"})

\* the grid of one interval holds a Peak minute and an Off-Peak minute, each
\* with the value of its own category only
C26_Witness ==
    /\ Expanded
    /\ \E j, k \in 1 .. Len(minute_df) :
          /\ minute_df[j].Interval = minute_df[k].Interval
          /\ ValuesSet(minute_df[j]) = {"P_Value"}
          /\ ValuesSet(minute_df[k]) = {"OP_Value"}

(***************************************************************************)
(* C27.  Sensor merge: the earliest value of a cell is kept.               *)
(***************************************************************************)
\* a step of the loop over the files
ProcessesFile == pc = "merge" /\ todo # << >> /\ todo' = Tail(todo)

\* the cell of column k at timestamp t that the file of the step carries
Incoming(k, t) == IF t \in df'.index THEN df'.cols[k][t] ELSE None

RECURSIVE PrefixNumeral(_)
PrefixNumeral(n) ==
    IF n = 0 THEN << >>
    ELSE PrefixNumeral((n - 1) \div 26) \o <<letters[((n - 1) % 26) + 1]>>

\* the conflict columns of a frame
ConflictColumns(frame) == {k \in DOMAIN frame.cols : k[1] # << >>}

\* C28: the n-th prefix issued is the n-th word of !A!, !B!, ..., !Z!,
\* !AA!, !AB!, ... and differs from every prefix issued before it; in a
\* merge every new conflict column takes the next prefix not yet used, so
\* the conflict columns of the table carry different names and a conflict
\* column, once created, is never written over.
C28_PrefixesNeverRepeat ==
    /\ [](pc = "prefixes" =>
              /\ Len(result) = conflict_count
              /\ result # << >> =>
                    /\ result[Len(result)] = PrefixNumeral(Len(result))
                    /\ \A i \in 1 .. Len(result) - 1 : result[i] # result[Len(result)])
    /\ [][MergesFile =>
              /\ ConflictColumns(combined[1]) \subseteq ConflictColumns(combined'[1])
              /\ \A k \in ConflictColumns(combined[1]) : \A t \in combined[1].index :
                    combined'[1].cols[k][t] = combined[1].cols[k][t]
              /\ {k[1] : k \in ConflictColumns(combined'[1]) \ ConflictColumns(combined[1])} =
                    {PrefixNumeral(n) : n \in (conflict_count + 1) .. conflict_count'}
              /\ Cardinality(ConflictColumns(combined'[1])) = conflict_count']_vars

\* twenty-eight prefixes have been issued: !A! first, !Z! the 26th, then
\* !AA! and !AB!
C28_Witness ==
    /\ pc = "prefixes" /\ Len(result) = 28
    /\ result[1] = <<"A">> /\ result[26] = <<"Z">>
    /\ result[27] = <<"A", "A">> /\ result[28] = <<"A", "B">>

(***************************************************************************)
(* C29, C30.  The incremental sync of the weight files.                    *)
(***************************************************************************)
\* the rows of the cache file of a folder, and the files they come from
CacheRows(d) == IF d.cache = None THEN << >> ELSE d.cache[1]

CacheIds(d) == {CacheRows(d)[i].source_file_id : i \in 1 .. Len(CacheRows(d))}

\* a call of sync_drive_data has returned
Synced == synced' # synced

\* C29: a sync downloads no file whose id is in the source_file_id column
\* of the cache, and a sync that finds every .txt file of the folder in the
\* cache uploads nothing, returns the rows of the cache and leaves the
\* cache as it was.
C29_IncrementalSync ==
    [][Synced =>
          /\ synced'[1].downloaded \cap CacheIds(drive) = {}
          /\ DOMAIN drive.files \subseteq CacheIds(drive) =>
                /\ synced'[1].upload = "none"
                /\ synced'[1].returned = CacheRows(drive)
                /\ drive' = drive]_vars

\* C30: a sync whose upload fails still returns the rows of the cache
\* followed by the rows parsed in this call and leaves the cache file as it
\* was, so that none of the files parsed in this call is in the cache and
\* the next sync finds each of them new again.
C30_UploadFailureNotFatal ==
    [][Synced /\ synced'[1].upload = "failed" =>
          /\ synced'[1].returned = CacheRows(drive) \o synced'[1].new_rows
          /\ drive' = drive
          /\ \A i \in 1 .. Len(synced'[1].new_rows) :
                synced'[1].new_rows[i].source_file_id \notin CacheIds(drive')]_vars


====
